---- MODULE Spec2Model ----
(***************************************************************************)
(* State-machine model of the background monitoring engine of the crypto   *)
(* trading bot: the price alert registry (utils/price_alerts.py), the meme *)
(* token sniper (utils/meme_sniper.py), the interval scheduler             *)
(* (utils/scheduler.py), the trading strategies and their manager          *)
(* (utils/strategies.py), and the start and stop of the monitor threads.   *)
(*                                                                         *)
(* Python strings are sequences of one-character strings, so that          *)
(* formatting, splitting, lower-casing and substring tests are computed.   *)
(* An Optional value is <<>> (None) or <<v>>.                              *)
(***************************************************************************)
EXTENDS Integers, Sequences, FiniteSets, TLC

\* ------------------------------------------------------------------------
\* Bounds of the model
\* ------------------------------------------------------------------------
MaxAlerts == 2
MaxMatchUpdates == 2
MaxUpdates == 103
MaxSniperAlerts == 1
MaxCycles == 2
MaxJobs == 2
MaxTime == 2
MaxExecs == 2
MaxCandles == 5
MaxAnalyzed == 4
MaxPrices == 4
MaxThreads == 2
MaxStops == 2
MaxChanges == 2
MaxCalls == 4
MaxViewTokens == 3
MaxRestarts == 2

\* ------------------------------------------------------------------------
\* Python values
\* ------------------------------------------------------------------------
None == <<>>

Some(v) == <<v>>

IsNone(o) == o = <<>>

Val(o) == o[1]

Range(s) == {s[i] : i \in 1..Len(s)}

UpperChars == <<"A","B","C","D","E","F","G","H","I","J","K","L","M",
                "N","O","P","Q","R","S","T","U","V","W","X","Y","Z">>

LowerChars == <<"a","b","c","d","e","f","g","h","i","j","k","l","m",
                "n","o","p","q","r","s","t","u","v","w","x","y","z">>

\* str.lower() on one character
LowerChar(c) ==
    IF \E i \in 1..26 : UpperChars[i] = c
    THEN LowerChars[CHOOSE i \in 1..26 : UpperChars[i] = c]
    ELSE c

\* str.lower()
Lower(s) == [i \in 1..Len(s) |-> LowerChar(s[i])]

\* needle in haystack (Python substring test)
Contains(haystack, needle) ==
    \E i \in 0..(Len(haystack) - Len(needle)) :
        \A j \in 1..Len(needle) : haystack[i + j] = needle[j]

DigitChars == <<"0","1","2","3","4","5","6","7","8","9">>

RECURSIVE IntToStr(_)
\* str(n) / f"{n}" for a natural number
IntToStr(n) ==
    IF n < 10 THEN <<DigitChars[n + 1]>>
    ELSE IntToStr(n \div 10) \o <<DigitChars[(n % 10) + 1]>>

\* s.split(sep, 1): the parts before and after the first sep
\* (the whole string and nothing when sep does not occur)
SplitFirst(s, sep) ==
    IF \E i \in 1..Len(s) : s[i] = sep
    THEN LET k == CHOOSE i \in 1..Len(s) :
                      s[i] = sep /\ \A j \in 1..(i - 1) : s[j] # sep
         IN <<SubSeq(s, 1, k - 1), SubSeq(s, k + 1, Len(s))>>
    ELSE <<s>>

\* ------------------------------------------------------------------------
\* Names used as inputs
\* ------------------------------------------------------------------------
S_btcc == <<"b","t","c","c">>

S_coinbase == <<"c","o","i","n","b","a","s","e">>

S_btcc_futures == <<"b","t","c","c","_","f","u","t","u","r","e","s">>

S_photon_sol == <<"p","h","o","t","o","n","_","s","o","l">>

S_BTCUSDT == <<"B","T","C","/","U","S","D","T">>

S_above == <<"a","b","o","v","e">>

S_below == <<"b","e","l","o","w">>

S_space == <<" ">>

S_ethereum == <<"e","t","h","e","r","e","u","m">>

S_bsc == <<"b","s","c">>

S_BSC == <<"B","S","C">>

S_solana == <<"s","o","l","a","n","a">>

S_doge == <<"d","o","g","e">>

S_DOGE == <<"D","O","G","E">>

S_clone == <<"c","l","o","n","e">>

S_Shiba == <<"S","h","i","b","a">>

S_SHIB == <<"S","H","I","B">>

S_Dogeclone == <<"D","o","g","e","c","l","o","n","e">>

S_DGC == <<"D","G","C">>

S_Moon == <<"M","o","o","n">>

Users == {1}

Symbols == {S_BTCUSDT}

Targets == {50000}

\* the (exchange, condition) arguments of the alerts the command layer sets:
\* a supported exchange with both conditions, an exchange whose name
\* key.split('_', 1) reads as btcc, and one that is not supported however
\* it is read
AlertInputs ==
    {<<S_btcc, S_above>>, <<S_btcc, S_below>>,
     <<S_btcc_futures, S_below>>, <<S_photon_sol, S_above>>}

Prices == {0, 49000, 50000, 51000}

\* values of the wall clock (seconds) at which the command layer acts
Times == {0, 1}

\* ------------------------------------------------------------------------
\* Price alerts (utils/price_alerts.py)
\* ------------------------------------------------------------------------
VARIABLES
    pa_heap,      \* every PriceAlert object created so far; identity = index
    pa_alerts,    \* PriceAlertManager.alerts: ordered dict, <<alert_id, object>>
    pa_running,   \* PriceAlertManager.running
    pa_pc,        \* position of the monitor thread inside _check_alerts
    pa_map,       \* exchange_symbol_map of the cycle in progress
    pa_gi,        \* index of the group being processed
    pa_price,     \* current_price of the group being processed
    pa_trig,      \* triggered_alerts still to be notified
    pa_notified,  \* observed: notification_callback calls, per alert object
    pa_calls,     \* observed: notification_callback calls of this cycle
    pa_fetched,   \* observed: each get_ticker call of this cycle and the price used from it
    pa_evald,     \* observed: <<object, price>> of each is_triggered call of this cycle
    pa_snap       \* observed: the registry as it was when this cycle began

paVars == <<pa_heap, pa_alerts, pa_running, pa_pc, pa_map, pa_gi,
            pa_price, pa_trig, pa_notified, pa_calls, pa_fetched, pa_evald,
            pa_snap>>

\* one PriceAlert on which is_triggered is called
VARIABLES
    it_alert,     \* the PriceAlert object
    it_before,    \* observed: the object as it was before the call
    it_price,     \* the argument current_price
    it_result     \* the value returned (None before the call)

itVars == <<it_alert, it_before, it_price, it_result>>

\* one MemeSniperAlert and one MemeToken on which matches_token,
\* mark_token_triggered and update_price are called
VARIABLES
    mt_alert,     \* the MemeSniperAlert object
    mt_token,     \* the MemeToken object
    mt_now,       \* datetime.now(), in minutes
    mt_result,    \* the value matches_token returned (None: no call since the last change)
    mt_updates    \* number of update_price calls so far

mtVars == <<mt_alert, mt_token, mt_now, mt_result, mt_updates>>

\* one MemeToken receiving a long run of update_price calls
VARIABLES
    tk_token,     \* the MemeToken object
    tk_n,         \* number of update_price calls so far
    tk_script,    \* the inputs of the run: how often the clock ticks and volume is given
    tk_prices,    \* observed: every entry ever appended to price_history
    tk_volumes    \* observed: every entry ever appended to volume_history

tkVars == <<tk_token, tk_n, tk_script, tk_prices, tk_volumes>>

\* MemeSniper (utils/meme_sniper.py)
VARIABLES
    sn_heap,      \* the MemeSniperAlert objects ever created; an object is its index
    sn_alerts,    \* self.alerts: alert_id -> object, in insertion order
    sn_tokens,    \* self.tokens: token_id -> MemeToken, in insertion order
    sn_running,   \* self.running
    sn_pc,        \* where the monitor thread is
    sn_now,       \* datetime.now(), in minutes
    sn_trig,      \* _check_alerts: triggered_alerts still to be processed
    sn_cycles,    \* number of cycles begun
    sn_matched,   \* observed: the pairs matches_token accepted in this cycle
    sn_cycle,     \* observed: the pairs notified in this cycle
    sn_calls,     \* observed: every notification_callback call so far
    sn_buys       \* observed: every buy_callback call so far

snVars == <<sn_heap, sn_alerts, sn_tokens, sn_running, sn_pc, sn_now, sn_trig,
            sn_cycles, sn_matched, sn_cycle, sn_calls, sn_buys>>

\* TaskScheduler (utils/scheduler.py) and the job list of the schedule library
VARIABLES
    sc_heap,      \* the Job objects ever created; an object is its index
    sc_jobs,      \* schedule.jobs: the registered Job objects, in order
    sc_running,   \* self.running
    sc_pc,        \* where the scheduler thread is
    sc_i,         \* run_pending: position of the iteration over schedule.jobs
    sc_runnable,  \* run_pending: the due jobs collected, then those still to run
    sc_now,       \* datetime.now(), in minutes
    sc_collected, \* observed: the jobs ever collected as due
    sc_early,     \* observed: the jobs cancel_task found before they were ever collected
    sc_due,       \* observed: the due jobs of this tick, as sorted by run_pending
    sc_tick       \* observed: the jobs run in this tick, and whether the task raised

scVars == <<sc_heap, sc_jobs, sc_running, sc_pc, sc_i, sc_runnable, sc_now,
            sc_collected, sc_early, sc_due, sc_tick>>

\* StrategyManager (utils/strategies.py)
VARIABLES
    sm_strategies, \* self.strategies: name -> Strategy, in insertion order
    sm_execs,      \* number of execute_strategy calls so far
    sm_last        \* observed: the last execute_strategy call (None before the first)

smVars == <<sm_strategies, sm_execs, sm_last>>

\* one crossover strategy analysed once per appended candle
VARIABLES
    cx_strategy,  \* the SMAStrategy or EMAStrategy object
    cx_kind,      \* the candle source: the placeholder or one returning the candles
    cx_series,    \* the inputs of the run: the close of every candle to come
    cx_n,         \* number of candles appended so far
    cx_signals    \* observed: the value analyze returned after each candle

cxVars == <<cx_strategy, cx_kind, cx_series, cx_n, cx_signals>>

\* one strategy on which analyze is called
VARIABLES
    an_strategy,  \* the Strategy object
    an_src,       \* the candle source of the call
    an_result     \* observed: the outcome of the call (None before it)

anVars == <<an_strategy, an_src, an_result>>

\* one calculate_sma call
VARIABLES
    ma_prices,    \* the argument prices
    ma_period,    \* the argument period
    ma_result     \* observed: the list returned (None before the call)

maVars == <<ma_prices, ma_period, ma_result>>

\* the background loop of one monitor and its start and stop commands
VARIABLES
    lc_monitor,   \* which monitor: "alerts", "sniper" or "scheduler"
    lc_running,   \* self.running
    lc_thread,    \* self.monitor_thread / self.scheduler_thread (None or a thread)
    lc_threads,   \* where every thread ever created is; a thread is its index
    lc_cmd,       \* where the caller of start and stop is
    lc_last,      \* observed: what the last start or stop call did
    lc_stops,     \* observed: stop calls that returned since __init__ or the last start
    lc_raised     \* observed: the threads whose last cycle ended with an exception

lcVars == <<lc_monitor, lc_running, lc_thread, lc_threads, lc_cmd, lc_last,
           lc_stops, lc_raised>>

\* ---- to_dict, json.dump, json.load, from_dict of one entity ----
VARIABLES
    rt_kind,      \* "price_alert", "sniper_alert" or "token"
    rt_entity,    \* the entity that is serialised
    rt_n,         \* calls that have changed the entity since __init__
    rt_pc,        \* "entity", "dict", "file", "loaded" or "rebuilt"
    rt_data,      \* the dictionary of to_dict, or of json.load (None or a dict)
    rt_file,      \* the text of the file, value by value (None or a record)
    rt_rebuilt    \* the entity returned by from_dict (None or an entity)

rtVars == <<rt_kind, rt_entity, rt_n, rt_pc, rt_data, rt_file, rt_rebuilt>>

\* ---- save and load of a manager's registries ----
VARIABLES
    ps_manager,      \* "alerts" (PriceAlertManager), "sniper" or "strategies"
    ps_tokens,       \* MemeSniper.tokens: token id -> token (empty for the others)
    ps_items,        \* self.alerts / self.strategies: id -> entity
    ps_tokens_file,  \* the tokens file: None (missing), Garbage, or entries
    ps_items_file,   \* the alerts / strategies file, likewise
    ps_n,            \* calls made so far
    ps_last          \* observed: the last save or load call (None or a record)

psVars == <<ps_manager, ps_tokens, ps_items, ps_tokens_file, ps_items_file,
            ps_n, ps_last>>

\* ---- commands that change a registry, and what they return ----
VARIABLES
    rj_target,      \* "alerts", "strategies" or "scheduler"
    rj_alerts,      \* PriceAlertManager.alerts: alert id -> alert
    rj_strategies,  \* StrategyManager.strategies: name -> strategy
    rj_jobs,        \* the jobs of the schedule library, in order of creation
    rj_n,           \* calls made so far
    rj_last         \* observed: the last call (None or a record)

rjVars == <<rj_target, rj_alerts, rj_strategies, rj_jobs, rj_n, rj_last>>

\* ---- the registry lock: a monitor cycle beside a command ----
VARIABLES
    lk_manager,   \* "alerts", "sniper" or "strategies"
    lk_step,      \* the step of the cycle the monitor thread is at (0: none)
    lk_in,        \* TRUE while the thread is inside that step
    lk_lock,      \* self.lock: None, or the thread that holds it
    lk_cmd,       \* the command the command layer is executing, or "idle"
    lk_cycles     \* cycles completed

lkVars == <<lk_manager, lk_step, lk_in, lk_lock, lk_cmd, lk_cycles>>

\* ---- the read-only views of the token map ----
VARIABLES
    vw_tokens,    \* self.tokens: token_id -> MemeToken, in insertion order
    vw_now,       \* datetime.now(), in minutes
    vw_last       \* observed: the last view call, its arguments and the list returned

vwVars == <<vw_tokens, vw_now, vw_last>>

\* ---- the alerts registry over process restarts ----
VARIABLES
    rs_up,        \* TRUE while a process of the bot is running
    rs_alerts,    \* price_alert_manager.alerts of the running process
    rs_file,      \* ALERTS_FILE: None, or its content
    rs_fired,     \* observed: ids of the alerts a check cycle has set triggered and notified
    rs_n,         \* number of commands so far
    rs_restarts   \* number of process starts so far

rsVars == <<rs_up, rs_alerts, rs_file, rs_fired, rs_n, rs_restarts>>

\* ---- the strategy registry and the scheduler jobs of the bot process ----
VARIABLES
    bt_up,         \* TRUE while a process of the bot is running
    bt_strategies, \* strategy_manager.strategies of the running process
    bt_heap,       \* the Job objects the process has created; an object is its index
    bt_jobs,       \* schedule.jobs: the registered Job objects, in order
    bt_file,       \* STRATEGIES_FILE: None, or its content
    bt_n,          \* number of commands so far
    bt_restarts    \* number of process starts so far

btVars == <<bt_up, bt_strategies, bt_heap, bt_jobs, bt_file, bt_n, bt_restarts>>

vars == <<paVars, itVars, mtVars, tkVars, snVars, scVars, smVars, cxVars,
          anVars, maVars, lcVars, rtVars, psVars, rjVars, lkVars, vwVars,
          rsVars, btVars>>

PA_Others == <<itVars, mtVars, tkVars, snVars, scVars, smVars, cxVars,
               anVars, maVars, lcVars, rtVars, psVars, rjVars, lkVars,
               vwVars, rsVars, btVars>>

IT_Others == <<paVars, mtVars, tkVars, snVars, scVars, smVars, cxVars,
               anVars, maVars, lcVars, rtVars, psVars, rjVars, lkVars,
               vwVars, rsVars, btVars>>

MT_Others == <<paVars, itVars, tkVars, snVars, scVars, smVars, cxVars,
               anVars, maVars, lcVars, rtVars, psVars, rjVars, lkVars,
               vwVars, rsVars, btVars>>

TK_Others == <<paVars, itVars, mtVars, snVars, scVars, smVars, cxVars,
               anVars, maVars, lcVars, rtVars, psVars, rjVars, lkVars,
               vwVars, rsVars, btVars>>

SN_Others == <<paVars, itVars, mtVars, tkVars, scVars, smVars, cxVars,
               anVars, maVars, lcVars, rtVars, psVars, rjVars, lkVars,
               vwVars, rsVars, btVars>>

SC_Others == <<paVars, itVars, mtVars, tkVars, snVars, smVars, cxVars,
               anVars, maVars, lcVars, rtVars, psVars, rjVars, lkVars,
               vwVars, rsVars, btVars>>

SM_Others == <<paVars, itVars, mtVars, tkVars, snVars, scVars, cxVars,
               anVars, maVars, lcVars, rtVars, psVars, rjVars, lkVars,
               vwVars, rsVars, btVars>>

CX_Others == <<paVars, itVars, mtVars, tkVars, snVars, scVars, smVars,
               anVars, maVars, lcVars, rtVars, psVars, rjVars, lkVars,
               vwVars, rsVars, btVars>>

AN_Others == <<paVars, itVars, mtVars, tkVars, snVars, scVars, smVars,
               cxVars, maVars, lcVars, rtVars, psVars, rjVars, lkVars,
               vwVars, rsVars, btVars>>

MA_Others == <<paVars, itVars, mtVars, tkVars, snVars, scVars, smVars,
               cxVars, anVars, lcVars, rtVars, psVars, rjVars, lkVars,
               vwVars, rsVars, btVars>>

LC_Others == <<paVars, itVars, mtVars, tkVars, snVars, scVars, smVars,
               cxVars, anVars, maVars, rtVars, psVars, rjVars, lkVars,
               vwVars, rsVars, btVars>>

RT_Others == <<paVars, itVars, mtVars, tkVars, snVars, scVars, smVars,
               cxVars, anVars, maVars, lcVars, psVars, rjVars, lkVars,
               vwVars, rsVars, btVars>>

PS_Others == <<paVars, itVars, mtVars, tkVars, snVars, scVars, smVars,
               cxVars, anVars, maVars, lcVars, rtVars, rjVars, lkVars,
               vwVars, rsVars, btVars>>

RJ_Others == <<paVars, itVars, mtVars, tkVars, snVars, scVars, smVars,
               cxVars, anVars, maVars, lcVars, rtVars, psVars, lkVars,
               vwVars, rsVars, btVars>>

LK_Others == <<paVars, itVars, mtVars, tkVars, snVars, scVars, smVars,
               cxVars, anVars, maVars, lcVars, rtVars, psVars, rjVars,
               vwVars, rsVars, btVars>>

VW_Others == <<paVars, itVars, mtVars, tkVars, snVars, scVars, smVars,
               cxVars, anVars, maVars, lcVars, rtVars, psVars, rjVars,
               lkVars, rsVars, btVars>>

RS_Others == <<paVars, itVars, mtVars, tkVars, snVars, scVars, smVars,
               cxVars, anVars, maVars, lcVars, rtVars, psVars, rjVars,
               lkVars, vwVars, btVars>>

BT_Others == <<paVars, itVars, mtVars, tkVars, snVars, scVars, smVars,
               cxVars, anVars, maVars, lcVars, rtVars, psVars, rjVars,
               lkVars, vwVars, rsVars>>

\* PriceAlert.__init__
PriceAlert(user_id, symbol, exchange, target_price, condition, now) ==
    [user_id      |-> user_id,
     symbol       |-> symbol,
     exchange     |-> Lower(exchange),
     target_price |-> target_price,
     condition    |-> Lower(condition),
     alert_id     |-> IntToStr(user_id) \o <<"_">> \o symbol \o <<"_">>
                      \o exchange \o <<"_">> \o IntToStr(now),
     created_at   |-> now,
     triggered    |-> FALSE]

\* a plausible slip: strict comparison for 'above'
is_triggered_strict(alert, current_price) ==
    IF alert.condition = S_above THEN current_price > alert.target_price
    ELSE IF alert.condition = S_below THEN current_price <= alert.target_price
    ELSE FALSE

\* PriceAlert.is_triggered
is_triggered(alert, current_price) ==
    IF alert.condition = S_above THEN current_price >= alert.target_price
    ELSE IF alert.condition = S_below THEN current_price <= alert.target_price
    ELSE FALSE

\* dict helpers: an ordered dict is a sequence of <<key, value>>
DictKeys(d) == {d[i][1] : i \in 1..Len(d)}

DictHas(d, k) == \E i \in 1..Len(d) : d[i][1] = k

DictGet(d, k) == d[CHOOSE i \in 1..Len(d) : d[i][1] = k][2]

\* d[k] = v : an existing key keeps its position
DictSet(d, k, v) ==
    IF DictHas(d, k)
    THEN [i \in 1..Len(d) |-> IF d[i][1] = k THEN <<k, v>> ELSE d[i]]
    ELSE Append(d, <<k, v>>)

\* del d[k]
DictDel(d, k) == SelectSeq(d, LAMBDA e : e[1] # k)

\* the key under which _check_alerts groups an alert
GroupKey(alert) == alert.exchange \o <<"_">> \o alert.symbol

\* a plausible slip: the snapshot does not skip triggered alerts
SkipInSnapshot_never(alert) == FALSE

\* _check_alerts: "if alert.triggered: continue"
SkipInSnapshot(alert) == alert.triggered

\* a plausible slip: every alert opens a group of its own
InMap_never(map, key) == FALSE

\* _check_alerts: "if key not in exchange_symbol_map" (negated)
InMap(map, key) == DictHas(map, key)

RECURSIVE BuildMap(_, _, _)
\* _check_alerts, first loop: group the non-triggered alerts by key
BuildMap(heap, alerts, acc) ==
    IF alerts = <<>> THEN acc
    ELSE LET o   == Head(alerts)[2]
             key == GroupKey(heap[o])
         IN IF SkipInSnapshot(heap[o])
            THEN BuildMap(heap, Tail(alerts), acc)
            ELSE BuildMap(heap, Tail(alerts),
                          IF InMap(acc, key)
                          THEN DictSet(acc, key, Append(DictGet(acc, key), o))
                          ELSE Append(acc, <<key, <<o>>>>))

\* exchange_name, symbol = key.split('_', 1)
ExchangeNameOf(key) == SplitFirst(key, "_")[1]

SymbolOf(key) == SplitFirst(key, "_")[2]

\* the price read from the ticker: ticker.get(..., 0)
ExtractPrice(value) == IF IsNone(value) THEN 0 ELSE Val(value)

PA_Init ==
    /\ pa_heap = <<>>
    /\ pa_alerts = <<>>
    /\ pa_running = FALSE
    /\ pa_pc = "sleep"
    /\ pa_map = <<>>
    /\ pa_gi = 0
    /\ pa_price = 0
    /\ pa_trig = <<>>
    /\ pa_notified = <<>>
    /\ pa_calls = <<>>
    /\ pa_fetched = <<>>
    /\ pa_evald = {}
    /\ pa_snap = <<>>

\* the wall clock never runs backwards: the time of a new command is not
\* before the creation time of any alert created so far (time is counted
\* from the second of the first command)
ClockValues(heap) ==
    IF heap = <<>> THEN {0}
    ELSE {t \in Times : \A o \in 1..Len(heap) : heap[o].created_at <= t}

\* PriceAlertManager.start_monitoring
PA_Start ==
    /\ ~pa_running
    /\ pa_running' = TRUE
    /\ UNCHANGED <<pa_heap, pa_alerts, pa_pc, pa_map, pa_gi,
                   pa_price, pa_trig, pa_notified, pa_calls, pa_fetched,
                   pa_evald, pa_snap>>
    /\ UNCHANGED PA_Others

\* the command layer creates a PriceAlert and calls add_alert
PA_AddAlert ==
    /\ Len(pa_heap) < MaxAlerts
    /\ \E u \in Users, s \in Symbols, ec \in AlertInputs, t \in Targets,
          now \in ClockValues(pa_heap) :
          LET alert == PriceAlert(u, s, ec[1], t, ec[2], now)
              o     == Len(pa_heap) + 1
          IN /\ pa_heap' = Append(pa_heap, alert)
             /\ pa_alerts' = DictSet(pa_alerts, alert.alert_id, o)
             /\ pa_notified' = Append(pa_notified, 0)
    /\ UNCHANGED <<pa_running, pa_pc, pa_map, pa_gi, pa_price,
                   pa_trig, pa_calls, pa_fetched, pa_evald, pa_snap>>
    /\ UNCHANGED PA_Others

\* PriceAlertManager.remove_alert
PA_RemoveAlert ==
    /\ \E o \in 1..Len(pa_heap) :
          LET alert_id == pa_heap[o].alert_id
          IN pa_alerts' = IF DictHas(pa_alerts, alert_id)
                          THEN DictDel(pa_alerts, alert_id)
                          ELSE pa_alerts
    /\ UNCHANGED <<pa_heap, pa_running, pa_pc, pa_map, pa_gi,
                   pa_price, pa_trig, pa_notified, pa_calls, pa_fetched,
                   pa_evald, pa_snap>>
    /\ UNCHANGED PA_Others

\* a plausible slip: a group that ends early ends the whole cycle
NextGroupPc_abort(map, gi) == "done"

\* the position after the group at index gi is finished
NextGroupPc(map, gi) == IF gi < Len(map) THEN "fetch" ELSE "done"

\* _check_alerts, first loop (under the lock)
PA_Snapshot ==
    /\ pa_running
    /\ pa_pc = "sleep"
    /\ LET map == BuildMap(pa_heap, pa_alerts, <<>>)
       IN /\ pa_map' = map
          /\ pa_gi' = 1
          /\ pa_pc' = IF map = <<>> THEN "done" ELSE "fetch"
    /\ pa_price' = 0
    /\ pa_trig' = <<>>
    /\ pa_calls' = <<>>
    /\ pa_fetched' = <<>>
    /\ pa_evald' = {}
    /\ pa_snap' = [i \in 1..Len(pa_alerts) |->
                      [obj |-> pa_alerts[i][2],
                       triggered |-> pa_heap[pa_alerts[i][2]].triggered]]
    /\ UNCHANGED <<pa_heap, pa_alerts, pa_running, pa_notified>>
    /\ UNCHANGED PA_Others

\* a plausible slip: only a negative price is rejected
SkipsGroup_zero_ok(raises, exchange_name, current_price) == \/ raises \/ exchange_name \notin {S_btcc, S_coinbase} \/ current_price < 0

\* _check_alerts: whether the group ends before any alert is evaluated (an
\* exception, the else branch of the exchange test, or "current_price <= 0")
SkipsGroup(raises, exchange_name, current_price) == \/ raises \/ exchange_name \notin {S_btcc, S_coinbase} \/ current_price <= 0

\* _check_alerts: get_exchange / get_ticker and the price extraction of one
\* group (outside the lock)
PA_Fetch ==
    /\ pa_pc = "fetch"
    /\ LET key           == pa_map[pa_gi][1]
           exchange_name == ExchangeNameOf(key)
           symbol        == SymbolOf(key)
       IN \E raises \in BOOLEAN, value \in {None} \cup {Some(p) : p \in Prices} :
             LET current_price == ExtractPrice(value)
                 skip == SkipsGroup(raises, exchange_name, current_price)
             IN /\ pa_fetched' = Append(pa_fetched,
                                       [key           |-> key,
                                        exchange_name |-> exchange_name,
                                        symbol        |-> symbol,
                                        raised        |-> raises,
                                        value         |-> IF raises THEN None
                                                          ELSE value,
                                        price         |-> IF skip THEN None
                                                          ELSE Some(current_price),
                                        used          |-> ~skip])
                /\ IF skip
                   THEN /\ pa_pc' = NextGroupPc(pa_map, pa_gi)
                        /\ pa_gi' = pa_gi + 1
                        /\ pa_price' = 0
                   ELSE /\ pa_pc' = "eval"
                        /\ pa_gi' = pa_gi
                        /\ pa_price' = current_price
    /\ UNCHANGED <<pa_heap, pa_alerts, pa_running, pa_map, pa_trig,
                   pa_notified, pa_calls, pa_evald, pa_snap>>
    /\ UNCHANGED PA_Others

RECURSIVE TriggeredOf(_, _, _)
\* the alerts of a group for which is_triggered(current_price) holds, in order
TriggeredOf(heap, group, price) ==
    IF group = <<>> THEN <<>>
    ELSE IF is_triggered(heap[Head(group)], price)
         THEN <<Head(group)>> \o TriggeredOf(heap, Tail(group), price)
         ELSE TriggeredOf(heap, Tail(group), price)

\* _check_alerts: evaluate the alerts of one group (under the lock)
PA_Evaluate ==
    /\ pa_pc = "eval"
    /\ LET group == pa_map[pa_gi][2]
           fired == TriggeredOf(pa_heap, group, pa_price)
       IN /\ pa_heap' = [o \in 1..Len(pa_heap) |->
                            IF o \in Range(fired)
                            THEN [pa_heap[o] EXCEPT !.triggered = TRUE]
                            ELSE pa_heap[o]]
          /\ pa_trig' = fired
          /\ pa_evald' = pa_evald \cup {<<o, pa_price>> : o \in Range(group)}
          /\ IF fired = <<>>
             THEN /\ pa_pc' = NextGroupPc(pa_map, pa_gi)
                  /\ pa_gi' = pa_gi + 1
             ELSE /\ pa_pc' = "notify"
                  /\ pa_gi' = pa_gi
    /\ UNCHANGED <<pa_alerts, pa_running, pa_map, pa_price,
                   pa_notified, pa_calls, pa_fetched, pa_snap>>
    /\ UNCHANGED PA_Others

\* _check_alerts: one notification_callback(alert, current_price) call; an
\* exception it raises is caught by the group's except clause
PA_Notify ==
    /\ pa_pc = "notify"
    /\ LET o == Head(pa_trig)
       IN /\ pa_notified' = [pa_notified EXCEPT ![o] = IF @ < 2 THEN @ + 1 ELSE @]
          /\ pa_calls' = Append(pa_calls, <<o, pa_price>>)
          /\ \E raises \in BOOLEAN :
                IF raises \/ Len(pa_trig) = 1
                THEN /\ pa_trig' = <<>>
                     /\ pa_pc' = NextGroupPc(pa_map, pa_gi)
                     /\ pa_gi' = pa_gi + 1
                ELSE /\ pa_trig' = Tail(pa_trig)
                     /\ pa_pc' = "notify"
                     /\ pa_gi' = pa_gi
    /\ UNCHANGED <<pa_heap, pa_alerts, pa_running, pa_map, pa_price,
                   pa_fetched, pa_evald, pa_snap>>
    /\ UNCHANGED PA_Others

\* _check_alerts returns (its locals are dropped) and _monitor_prices sleeps
\* for check_interval
PA_Sleep ==
    /\ pa_pc = "done"
    /\ pa_pc' = "sleep"
    /\ pa_map' = <<>>
    /\ pa_gi' = 0
    /\ pa_price' = 0
    /\ pa_trig' = <<>>
    /\ pa_calls' = <<>>
    /\ pa_fetched' = <<>>
    /\ pa_evald' = {}
    /\ pa_snap' = <<>>
    /\ UNCHANGED <<pa_heap, pa_alerts, pa_running, pa_notified>>
    /\ UNCHANGED PA_Others

PA_Next ==
    \/ PA_Start
    \/ PA_AddAlert
    \/ PA_RemoveAlert
    \/ PA_Snapshot
    \/ PA_Fetch
    \/ PA_Evaluate
    \/ PA_Notify
    \/ PA_Sleep

\* ------------------------------------------------------------------------
\* PriceAlert.is_triggered on its own
\* ------------------------------------------------------------------------
S_Above == <<"A","b","o","v","e">>

S_BELOW == <<"B","E","L","O","W">>

S_equal == <<"e","q","u","a","l">>

IT_Conditions == {S_above, S_below, S_Above, S_BELOW, S_equal}

IT_Prices == {0, 49000, 50000, 51000}

\* no call in progress
IT_Off ==
    /\ it_alert = None
    /\ it_before = None
    /\ it_price = 0
    /\ it_result = None

\* any alert (new, or loaded with its triggered flag set) and any price
IT_Init ==
    /\ \E c \in IT_Conditions, t \in IT_Prices, tr \in BOOLEAN :
          it_alert = Some([PriceAlert(1, S_BTCUSDT, S_btcc, t, c, 0)
                              EXCEPT !.triggered = tr])
    /\ it_before = it_alert
    /\ it_price \in IT_Prices
    /\ it_result = None

\* alert.is_triggered(current_price)
IT_Call ==
    /\ it_result' = Some(is_triggered(Val(it_alert), it_price))
    /\ it_before' = it_alert
    /\ UNCHANGED <<it_alert, it_price>>
    /\ UNCHANGED IT_Others

\* the caller comes back with another price
IT_NewPrice ==
    /\ it_result # None
    /\ it_price' \in IT_Prices \ {it_price}
    /\ it_result' = None
    /\ UNCHANGED <<it_alert, it_before>>
    /\ UNCHANGED IT_Others

IT_Next ==
    \/ IT_Call
    \/ IT_NewPrice

\* ------------------------------------------------------------------------
\* Meme tokens and sniper alerts (utils/meme_sniper.py)
\* ------------------------------------------------------------------------
\* "Keep only the last 100 price points"
HistoryCap == 100

\* MemeToken.__init__
MemeToken(token_id, symbol, name, chain, price, market_cap, volume_24h, price_change_24h, now) ==
    [token_id         |-> token_id,
     symbol           |-> symbol,
     name             |-> name,
     chain            |-> chain,
     price            |-> price,
     market_cap       |-> market_cap,
     volume_24h       |-> volume_24h,
     price_change_24h |-> price_change_24h,
     created_at       |-> now,
     last_updated     |-> now,
     price_history    |-> <<>>,
     volume_history   |-> <<>>]

\* a plausible slip: history[:100] keeps the oldest entries
LastEntries_first(history) ==
    IF Len(history) > HistoryCap THEN SubSeq(history, 1, HistoryCap)
    ELSE history

\* update_price: "if len(history) > 100: history = history[-100:]"
LastEntries(history) ==
    IF Len(history) > HistoryCap
    THEN SubSeq(history, Len(history) - HistoryCap + 1, Len(history))
    ELSE history

\* MemeToken.update_price; the arguments after price are Optional
update_price(token, price, market_cap, volume_24h, price_change_24h, now) ==
    [token EXCEPT
        !.price_history =
            LastEntries(Append(@, [timestamp        |-> now,
                                   price            |-> price,
                                   price_change_24h |-> price_change_24h])),
        !.volume_history =
            IF IsNone(volume_24h) THEN @
            ELSE LastEntries(Append(@, [timestamp |-> now,
                                        volume    |-> Val(volume_24h)])),
        !.price = Some(price),
        !.market_cap = IF IsNone(market_cap) THEN @ ELSE market_cap,
        !.volume_24h = IF IsNone(volume_24h) THEN @ ELSE volume_24h,
        !.price_change_24h = IF IsNone(price_change_24h) THEN @
                             ELSE price_change_24h,
        !.last_updated = now]

\* a plausible slip: an entry at the cutoff counts as older
OlderThan_inclusive(history, cutoff) ==
    SelectSeq(history, LAMBDA e : e.timestamp <= cutoff)

\* the entries of a history with timestamp < cutoff, in order
OlderThan(history, cutoff) ==
    SelectSeq(history, LAMBDA e : e.timestamp < cutoff)

\* MemeToken.calculate_price_change: None, or the change in percent as the
\* fraction <<numerator, denominator>>
calculate_price_change(token, minutes, now) ==
    IF Len(token.price_history) < 2 THEN None
    ELSE LET historical_prices == OlderThan(token.price_history, now - minutes)
         IN IF historical_prices = <<>> THEN None
            ELSE LET historical_price ==
                         historical_prices[Len(historical_prices)].price
                 IN IF historical_price = 0 THEN None
                    ELSE Some(<<(Val(token.price) - historical_price) * 100,
                                historical_price>>)

\* MemeToken.calculate_volume_change
calculate_volume_change(token, minutes, now) ==
    IF Len(token.volume_history) < 2 THEN None
    ELSE LET historical_volumes == OlderThan(token.volume_history, now - minutes)
         IN IF historical_volumes = <<>> THEN None
            ELSE LET historical_volume ==
                         historical_volumes[Len(historical_volumes)].volume
                 IN IF historical_volume = 0 THEN None
                    ELSE Some(<<(Val(token.volume_24h) - historical_volume) * 100,
                                historical_volume>>)

\* change < minimum, for a change <<numerator, denominator>>
ChangeBelow(change, minimum) ==
    IF change[2] > 0 THEN change[1] < minimum * change[2]
    ELSE change[1] > minimum * change[2]

\* "x or default" for an Optional list
OrDefault(o, default) == IF IsNone(o) \/ Val(o) = <<>> THEN default ELSE Val(o)

\* MemeSniperAlert.__init__
MemeSniperAlert(user_id, min_price_change, min_volume_change, max_market_cap, chains, keywords, exclude_keywords, auto_buy, auto_buy_amount, now) ==
    [user_id           |-> user_id,
     alert_id          |-> <<"m","e","m","e","_","s","n","i","p","e","r","_">>
                           \o IntToStr(user_id) \o <<"_">> \o IntToStr(now),
     min_price_change  |-> min_price_change,
     min_volume_change |-> min_volume_change,
     max_market_cap    |-> max_market_cap,
     chains            |-> OrDefault(chains, <<S_ethereum, S_bsc>>),
     keywords          |-> OrDefault(keywords, <<>>),
     exclude_keywords  |-> OrDefault(exclude_keywords, <<>>),
     auto_buy          |-> auto_buy,
     auto_buy_amount   |-> auto_buy_amount,
     created_at        |-> now,
     triggered_tokens  |-> <<>>]

\* f"{token.name} {token.symbol}".lower()
TokenText(token) == Lower(token.name \o S_space \o token.symbol)

\* a plausible slip: the already-triggered check is missing
AlreadyTriggered_never(alert, token) == FALSE

\* matches_token: "if token.token_id in self.triggered_tokens"
AlreadyTriggered(alert, token) ==
    token.token_id \in Range(alert.triggered_tokens)

\* matches_token: the chain check fails
ChainFails(alert, token) ==
    /\ alert.chains # <<>>
    /\ ~IsNone(token.chain) /\ Val(token.chain) # <<>>
    /\ Lower(Val(token.chain)) \notin {Lower(c) : c \in Range(alert.chains)}

\* a plausible slip: the market cap ceiling is not applied
MarketCapFails_never(alert, token) == FALSE

\* matches_token: the market cap check fails
MarketCapFails(alert, token) ==
    /\ ~IsNone(alert.max_market_cap) /\ ~IsNone(token.market_cap)
    /\ Val(token.market_cap) > Val(alert.max_market_cap)

\* matches_token: the keyword check fails
KeywordsFail(alert, token) ==
    /\ alert.keywords # <<>>
    /\ ~\E k \in Range(alert.keywords) : Contains(TokenText(token), Lower(k))

\* matches_token: the excluded keyword check fails
ExcludedFails(alert, token) ==
    /\ alert.exclude_keywords # <<>>
    /\ \E k \in Range(alert.exclude_keywords) :
          Contains(TokenText(token), Lower(k))

\* matches_token: the price change check fails
PriceChangeFails(alert, token, now) ==
    /\ ~IsNone(alert.min_price_change)
    /\ LET price_change_5m == calculate_price_change(token, 5, now)
       IN \/ IsNone(price_change_5m)
          \/ ChangeBelow(Val(price_change_5m), Val(alert.min_price_change))

\* matches_token: the volume change check fails
VolumeChangeFails(alert, token, now) ==
    /\ ~IsNone(alert.min_volume_change)
    /\ LET volume_change_5m == calculate_volume_change(token, 5, now)
       IN \/ IsNone(volume_change_5m)
          \/ ChangeBelow(Val(volume_change_5m), Val(alert.min_volume_change))

\* MemeSniperAlert.matches_token
matches_token(alert, token, now) ==
    IF AlreadyTriggered(alert, token) THEN FALSE
    ELSE IF ChainFails(alert, token) THEN FALSE
    ELSE IF MarketCapFails(alert, token) THEN FALSE
    ELSE IF KeywordsFail(alert, token) THEN FALSE
    ELSE IF ExcludedFails(alert, token) THEN FALSE
    ELSE IF PriceChangeFails(alert, token, now) THEN FALSE
    ELSE IF VolumeChangeFails(alert, token, now) THEN FALSE
    ELSE TRUE

\* a plausible slip: the token id is not recorded
mark_token_triggered_noop(alert, token_id) == alert

\* MemeSniperAlert.mark_token_triggered
mark_token_triggered(alert, token_id) ==
    IF token_id \notin Range(alert.triggered_tokens)
    THEN [alert EXCEPT !.triggered_tokens = Append(@, token_id)]
    ELSE alert

\* ------------------------------------------------------------------------
\* One alert and one token: matches_token, mark_token_triggered, update_price
\* ------------------------------------------------------------------------
\* constructor arguments of the alerts
SniperInputs ==
    {[min_price_change |-> None, min_volume_change |-> None,
      max_market_cap |-> Some(1000000), chains |-> None,
      keywords |-> Some(<<S_doge>>), exclude_keywords |-> None],
     [min_price_change |-> None, min_volume_change |-> None,
      max_market_cap |-> Some(1000000), chains |-> Some(<<S_bsc>>),
      keywords |-> Some(<<S_Moon, S_DOGE>>), exclude_keywords |-> None],
     [min_price_change |-> None, min_volume_change |-> None,
      max_market_cap |-> None, chains |-> None,
      keywords |-> None, exclude_keywords |-> None],
     [min_price_change |-> Some(50), min_volume_change |-> None,
      max_market_cap |-> Some(1000000), chains |-> None,
      keywords |-> None, exclude_keywords |-> Some(<<S_clone>>)],
     [min_price_change |-> None, min_volume_change |-> Some(100),
      max_market_cap |-> None, chains |-> None,
      keywords |-> None, exclude_keywords |-> None]}

\* tokens as the discovery source lists them: id, name, symbol
TokenNames ==
    {<<"shiba", S_Shiba, S_SHIB>>, <<"dogeclone", S_Dogeclone, S_DGC>>,
     <<"moon", S_Moon, S_DOGE>>}

TokenChains == {None, Some(S_BSC), Some(S_solana)}

MarketCaps == {None, Some(500000), Some(2000000)}

\* arguments of update_price: price, market_cap, volume_24h
UpdateInputs ==
    {<<1, Some(500000), Some(10)>>, <<2, Some(2000000), None>>,
     <<2, None, Some(30)>>}

\* values of the clock, in minutes
MT_Times == {0, 5, 6}

MT_Off ==
    /\ mt_alert = None
    /\ mt_token = None
    /\ mt_now = 0
    /\ mt_result = None
    /\ mt_updates = 0

\* any alert, new or loaded with a token already recorded, and any token
MT_Init ==
    /\ \E a \in SniperInputs, tt \in {<<>>, <<"shiba">>, <<"moon", "dogeclone">>} :
          mt_alert = Some([MemeSniperAlert(1, a.min_price_change,
                                           a.min_volume_change, a.max_market_cap,
                                           a.chains, a.keywords,
                                           a.exclude_keywords, FALSE, None, 0)
                              EXCEPT !.triggered_tokens = tt])
    /\ \E t \in TokenNames, ch \in TokenChains, mc \in MarketCaps :
          mt_token = Some(MemeToken(t[1], t[3], t[2], ch, Some(1), mc, None,
                                    None, 0))
    /\ mt_now = 0
    /\ mt_result = None
    /\ mt_updates = 0

\* alert.matches_token(token)
MT_Match ==
    /\ mt_result = None
    /\ mt_result' = Some(matches_token(Val(mt_alert), Val(mt_token), mt_now))
    /\ UNCHANGED <<mt_alert, mt_token, mt_now, mt_updates>>
    /\ UNCHANGED MT_Others

\* alert.mark_token_triggered(token_id)
MT_Mark ==
    /\ mt_alert' = Some(mark_token_triggered(Val(mt_alert), Val(mt_token).token_id))
    /\ mt_result' = None
    /\ UNCHANGED <<mt_token, mt_now, mt_updates>>
    /\ UNCHANGED MT_Others

\* token.update_price(...)
MT_Update ==
    /\ mt_updates < MaxMatchUpdates
    /\ \E u \in UpdateInputs :
          mt_token' = Some(update_price(Val(mt_token), u[1], u[2], u[3], None,
                                        mt_now))
    /\ mt_updates' = mt_updates + 1
    /\ mt_result' = None
    /\ UNCHANGED <<mt_alert, mt_now>>
    /\ UNCHANGED MT_Others

\* time passes
MT_Tick ==
    /\ \E t \in MT_Times : t > mt_now /\ mt_now' = t
    /\ mt_result' = None
    /\ UNCHANGED <<mt_alert, mt_token, mt_updates>>
    /\ UNCHANGED MT_Others

MT_Next ==
    \/ MT_Match
    \/ MT_Mark
    \/ MT_Update
    \/ MT_Tick

\* ------------------------------------------------------------------------
\* One token: a long run of update_price calls
\* ------------------------------------------------------------------------
TK_Off ==
    /\ tk_token = None
    /\ tk_n = 0
    /\ tk_script = None
    /\ tk_prices = <<>>
    /\ tk_volumes = <<>>

\* a new token; the run's clock advances by one every `tick` calls and
\* volume_24h is given on every `vol`-th call (never when vol = 0)
TK_Init ==
    /\ tk_token = Some(MemeToken("shiba", S_SHIB, S_Shiba, None, None, None,
                                 None, None, 0))
    /\ tk_n = 0
    /\ \E tick \in 1..2, vol \in 0..3 :
          tk_script = Some([tick |-> tick, vol |-> vol])
    /\ tk_prices = <<>>
    /\ tk_volumes = <<>>

\* token.update_price(price, volume_24h = volume); the price and the volume
\* are the number of the call, which tells the entries apart
TK_Update ==
    /\ tk_n < MaxUpdates
    /\ LET n      == tk_n + 1
           now    == n \div Val(tk_script).tick
           volume == IF Val(tk_script).vol # 0 /\ n % Val(tk_script).vol = 0
                     THEN Some(n) ELSE None
       IN /\ tk_token' = Some(update_price(Val(tk_token), n, None, volume,
                                           None, now))
          /\ tk_n' = n
          /\ tk_prices' = Append(tk_prices, [timestamp |-> now, price |-> n,
                                            price_change_24h |-> None])
          /\ tk_volumes' = IF IsNone(volume) THEN tk_volumes
                           ELSE Append(tk_volumes, [timestamp |-> now,
                                                    volume |-> n])
    /\ UNCHANGED tk_script
    /\ UNCHANGED TK_Others

TK_Next == TK_Update

\* ------------------------------------------------------------------------
\* MemeSniper: alerts, tokens and the monitor thread
\* ------------------------------------------------------------------------
\* constructor arguments of the alerts the commands create
SniperAlertInputs ==
    {[max_market_cap |-> Some(1000000), keywords |-> Some(<<S_doge>>),
      auto_buy |-> FALSE, auto_buy_amount |-> None],
     [max_market_cap |-> None, keywords |-> None,
      auto_buy |-> TRUE, auto_buy_amount |-> Some(100)],
     [max_market_cap |-> None, keywords |-> None,
      auto_buy |-> TRUE, auto_buy_amount |-> Some(0)]}

\* token_data of the listing endpoint
ListingInputs ==
    {<<>>,
     <<[id |-> "shiba", symbol |-> S_SHIB, name |-> S_Shiba,
        current_price |-> Some(1), market_cap |-> Some(500000),
        total_volume |-> Some(10)]>>,
     <<[id |-> "dogeclone", symbol |-> S_DGC, name |-> S_Dogeclone,
        current_price |-> Some(1), market_cap |-> Some(2000000),
        total_volume |-> None]>>}

\* token_data of the price endpoint for one token: none, or current_price,
\* market_cap, total_volume
PriceInputs ==
    {None, Some(<<2, Some(500000), Some(30)>>), Some(<<3, Some(2000000), None>>)}

\* minutes the thread may take from one cycle to the next
SleepMinutes == {1}

\* MemeSniper.__init__
SN_Init ==
    /\ sn_heap = <<>>
    /\ sn_alerts = <<>>
    /\ sn_tokens = <<>>
    /\ sn_running = FALSE
    /\ sn_pc = "idle"
    /\ sn_now = 0
    /\ sn_trig = <<>>
    /\ sn_cycles = 0
    /\ sn_matched = {}
    /\ sn_cycle = <<>>
    /\ sn_calls = <<>>
    /\ sn_buys = <<>>

\* MemeSniper.start_monitoring
SN_Start ==
    /\ ~sn_running
    /\ sn_running' = TRUE
    /\ sn_pc' = "update"
    /\ sn_cycles' = 1
    /\ UNCHANGED <<sn_heap, sn_alerts, sn_tokens, sn_now, sn_trig, sn_matched,
                   sn_cycle, sn_calls, sn_buys>>
    /\ UNCHANGED SN_Others

\* a command creates a MemeSniperAlert and calls MemeSniper.add_alert; the
\* second of the call is the first alert's or the one after it
SN_AddAlert ==
    /\ Len(sn_heap) < MaxSniperAlerts
    /\ \E u \in Users, a \in SniperAlertInputs,
          second \in (IF sn_heap = <<>> THEN {0} ELSE 0..1) :
          LET alert == [MemeSniperAlert(u, None, None, a.max_market_cap, None,
                                        a.keywords, None, a.auto_buy,
                                        a.auto_buy_amount, sn_now * 60 + second)
                           EXCEPT !.created_at = sn_now]
          IN /\ sn_heap' = Append(sn_heap, alert)
             /\ sn_alerts' = DictSet(sn_alerts, alert.alert_id, Len(sn_heap) + 1)
    /\ UNCHANGED <<sn_tokens, sn_running, sn_pc, sn_now, sn_trig, sn_cycles,
                   sn_matched, sn_cycle, sn_calls, sn_buys>>
    /\ UNCHANGED SN_Others

\* MemeSniper.remove_alert
SN_RemoveAlert ==
    /\ \E o \in 1..Len(sn_heap) :
          LET alert_id == sn_heap[o].alert_id
          IN sn_alerts' = IF DictHas(sn_alerts, alert_id)
                          THEN DictDel(sn_alerts, alert_id)
                          ELSE sn_alerts
    /\ UNCHANGED <<sn_heap, sn_tokens, sn_running, sn_pc, sn_now, sn_trig,
                   sn_cycles, sn_matched, sn_cycle, sn_calls, sn_buys>>
    /\ UNCHANGED SN_Others

\* _update_existing_tokens: the loop over the response; data[i] is the
\* token_data for the i-th known token
RECURSIVE UpdateTokens(_, _, _, _)
UpdateTokens(tokens, data, i, now) ==
    IF i > Len(tokens) THEN tokens
    ELSE IF IsNone(data[i]) THEN UpdateTokens(tokens, data, i + 1, now)
    ELSE LET d == Val(data[i])
         IN UpdateTokens([tokens EXCEPT ![i] =
                             <<@[1], update_price(@[2], d[1], d[2], d[3], None, now)>>],
                         data, i + 1, now)

\* a plausible slip: the listing overwrites a token already known
RECURSIVE AddTokens_overwrite(_, _, _)
AddTokens_overwrite(tokens, new_tokens, now) ==
    IF new_tokens = <<>> THEN tokens
    ELSE LET token_data == Head(new_tokens)
             token == MemeToken(token_data.id, token_data.symbol,
                                token_data.name, None, token_data.current_price,
                                token_data.market_cap, token_data.total_volume,
                                None, now)
         IN AddTokens_overwrite(DictSet(tokens, token_data.id, token),
                                Tail(new_tokens), now)

\* _update_token_data: the loop adding the tokens not yet known
RECURSIVE AddTokens(_, _, _)
AddTokens(tokens, new_tokens, now) ==
    IF new_tokens = <<>> THEN tokens
    ELSE LET token_data == Head(new_tokens)
             token == MemeToken(token_data.id, token_data.symbol,
                                token_data.name, None, token_data.current_price,
                                token_data.market_cap, token_data.total_volume,
                                None, now)
         IN AddTokens(IF DictHas(tokens, token_data.id) THEN tokens
                      ELSE DictSet(tokens, token_data.id, token),
                      Tail(new_tokens), now)

\* MemeSniper._update_token_data: the price data received updates the known
\* tokens, then the listings received are added
SN_Update ==
    /\ sn_pc = "update"
    /\ \E new_tokens \in ListingInputs,
          data \in [1..Len(sn_tokens) -> PriceInputs] :
          sn_tokens' = AddTokens(UpdateTokens(sn_tokens, data, 1, sn_now),
                                 new_tokens, sn_now)
    /\ sn_pc' = "check"
    /\ UNCHANGED <<sn_heap, sn_alerts, sn_running, sn_now, sn_trig, sn_cycles,
                   sn_matched, sn_cycle, sn_calls, sn_buys>>
    /\ UNCHANGED SN_Others

\* _check_alerts: the (alert, token id) pairs in the order of the two loops
AllPairs(alerts, tokens) ==
    [k \in 1..(Len(alerts) * Len(tokens)) |->
        <<alerts[((k - 1) \div Len(tokens)) + 1][2],
          tokens[((k - 1) % Len(tokens)) + 1][1]>>]

\* _check_alerts: the loops under the lock
RECURSIVE CheckPairs(_, _, _, _, _)
CheckPairs(heap, tokens, pairs, triggered_alerts, now) ==
    IF pairs = <<>>
    THEN [heap |-> heap, triggered_alerts |-> triggered_alerts]
    ELSE LET o        == pairs[1][1]
             token_id == pairs[1][2]
         IN IF matches_token(heap[o], DictGet(tokens, token_id), now)
            THEN CheckPairs([heap EXCEPT ![o] = mark_token_triggered(@, token_id)],
                            tokens, Tail(pairs),
                            Append(triggered_alerts, <<o, token_id>>), now)
            ELSE CheckPairs(heap, tokens, Tail(pairs), triggered_alerts, now)

\* MemeSniper._check_alerts, the part under the lock
SN_Check ==
    /\ sn_pc = "check"
    /\ LET r == CheckPairs(sn_heap, sn_tokens, AllPairs(sn_alerts, sn_tokens),
                           <<>>, sn_now)
       IN /\ sn_heap' = r.heap
          /\ sn_trig' = r.triggered_alerts
          /\ sn_pc' = IF r.triggered_alerts = <<>> THEN "sleep" ELSE "notify"
    /\ sn_matched' = {<<sn_alerts[i][2], sn_tokens[j][1]>> :
                         <<i, j>> \in {<<i, j>> \in (1..Len(sn_alerts)) \X (1..Len(sn_tokens)) :
                              matches_token(sn_heap[sn_alerts[i][2]],
                                            sn_tokens[j][2], sn_now)}}
    /\ UNCHANGED <<sn_alerts, sn_tokens, sn_running, sn_now, sn_cycles,
                   sn_cycle, sn_calls, sn_buys>>
    /\ UNCHANGED SN_Others

\* _check_alerts: after the callbacks of one pair, the next pair or the end
AfterPair(triggered_alerts) ==
    IF Len(triggered_alerts) > 1 THEN "notify" ELSE "sleep"

\* _check_alerts: notification_callback(alert, token); an exception leaves
\* _check_alerts and is logged by _monitor_tokens
SN_Notify ==
    /\ sn_pc = "notify"
    /\ LET alert == sn_heap[sn_trig[1][1]]
       IN \E raises \in BOOLEAN :
             IF raises
             THEN /\ sn_pc' = "sleep"
                  /\ sn_trig' = <<>>
             ELSE IF alert.auto_buy /\ ~IsNone(alert.auto_buy_amount)
                                    /\ Val(alert.auto_buy_amount) # 0
                  THEN /\ sn_pc' = "buy"
                       /\ sn_trig' = sn_trig
                  ELSE /\ sn_pc' = AfterPair(sn_trig)
                       /\ sn_trig' = Tail(sn_trig)
    /\ sn_cycle' = Append(sn_cycle, sn_trig[1])
    /\ sn_calls' = Append(sn_calls, sn_trig[1])
    /\ UNCHANGED <<sn_heap, sn_alerts, sn_tokens, sn_running, sn_now,
                   sn_cycles, sn_matched, sn_buys>>
    /\ UNCHANGED SN_Others

\* _check_alerts: buy_callback(alert, token, alert.auto_buy_amount)
SN_Buy ==
    /\ sn_pc = "buy"
    /\ \E raises \in BOOLEAN :
          IF raises
          THEN /\ sn_pc' = "sleep"
               /\ sn_trig' = <<>>
          ELSE /\ sn_pc' = AfterPair(sn_trig)
               /\ sn_trig' = Tail(sn_trig)
    /\ sn_buys' = Append(sn_buys, <<sn_trig[1][1], sn_trig[1][2],
                                    Val(sn_heap[sn_trig[1][1]].auto_buy_amount)>>)
    /\ UNCHANGED <<sn_heap, sn_alerts, sn_tokens, sn_running, sn_now,
                   sn_cycles, sn_matched, sn_cycle, sn_calls>>
    /\ UNCHANGED SN_Others

\* _monitor_tokens: time.sleep(self.check_interval), then the next cycle
SN_Sleep ==
    /\ sn_pc = "sleep"
    /\ sn_running
    /\ sn_cycles < MaxCycles
    /\ \E d \in SleepMinutes : sn_now' = sn_now + d
    /\ sn_pc' = "update"
    /\ sn_cycles' = sn_cycles + 1
    /\ sn_matched' = {}
    /\ sn_cycle' = <<>>
    /\ UNCHANGED <<sn_heap, sn_alerts, sn_tokens, sn_running, sn_trig,
                   sn_calls, sn_buys>>
    /\ UNCHANGED SN_Others

SN_Next ==
    \/ SN_Start
    \/ SN_AddAlert
    \/ SN_RemoveAlert
    \/ SN_Update
    \/ SN_Check
    \/ SN_Notify
    \/ SN_Buy
    \/ SN_Sleep

\* ------------------------------------------------------------------------
\* TaskScheduler (utils/scheduler.py)
\* ------------------------------------------------------------------------
S_1m == <<"1","m">>

S_1H == <<"1","H">>

S_1x == <<"1","x">>

S_m == <<"m">>

\* task_id arguments
TaskIds == {"strategy_a", "strategy_b"}

\* task_id and interval arguments of schedule_task
ScheduleInputs ==
    {<<"strategy_a", S_1m>>, <<"strategy_b", S_1m>>, <<"strategy_b", S_1H>>,
     <<"strategy_a", S_1x>>, <<"strategy_b", S_m>>}

\* minutes that pass during time.sleep(1): a new minute begins or not
TickMinutes == {0, 1}

RECURSIVE StrToNat(_)
\* the number written by a non-empty string of digits
StrToNat(s) ==
    LET d == CHOOSE k \in 1..10 : DigitChars[k] = s[Len(s)]
    IN IF Len(s) = 1 THEN d - 1
       ELSE StrToNat(SubSeq(s, 1, Len(s) - 1)) * 10 + (d - 1)

\* int(s): None stands for the ValueError
ParseInt(s) ==
    IF s # <<>> /\ \A i \in 1..Len(s) : s[i] \in Range(DigitChars)
    THEN Some(StrToNat(s))
    ELSE None

\* schedule_task: the period, in minutes, of the job that
\* schedule.every(interval_value).<unit> creates; None when schedule_task
\* returns False (int() raised, or the unit is not m, h or d)
IntervalPeriod(interval) ==
    LET interval_value == ParseInt(SubSeq(interval, 1, Len(interval) - 1))
    IN IF IsNone(interval_value) THEN None
       ELSE LET interval_unit == LowerChar(interval[Len(interval)])
            IN IF interval_unit = "m" THEN Some(Val(interval_value))
               ELSE IF interval_unit = "h" THEN Some(Val(interval_value) * 60)
               ELSE IF interval_unit = "d" THEN Some(Val(interval_value) * 1440)
               ELSE None

\* schedule.every(n).<unit>.do(task_wrapper) and job.tag(task_id): the Job
NewJob(task_id, period, now) ==
    [tag      |-> task_id,
     period   |-> period,
     next_run |-> now + period,
     last_run |-> None,
     runs     |-> 0,
     failed   |-> FALSE]

\* schedule.get_jobs(task_id)
get_jobs(heap, jobs, task_id) ==
    SelectSeq(jobs, LAMBDA j : heap[j].tag = task_id)

\* a plausible slip: only the first job found is cancelled
JobsToCancel_first(found) == {found[1]}

\* cancel_task: "for job in jobs: schedule.cancel_job(job)"
JobsToCancel(found) == Range(found)

\* a plausible slip: the wrapper lets the exception of the task through
WrapperPropagates_bare(raises) == raises

\* task_wrapper: "try: task() except Exception: log" lets nothing through
WrapperPropagates(raises) == FALSE

RECURSIVE InsertJob(_, _, _)
\* sorted(): the place of job j in a list sorted by next_run, after its equals
InsertJob(heap, sorted, j) ==
    IF sorted = <<>> THEN <<j>>
    ELSE IF heap[j].next_run < heap[Head(sorted)].next_run
         THEN <<j>> \o sorted
         ELSE <<Head(sorted)>> \o InsertJob(heap, Tail(sorted), j)

RECURSIVE SortJobs(_, _)
\* run_pending: sorted(runnable_jobs), Job.__lt__ comparing next_run
SortJobs(heap, jobs) ==
    IF jobs = <<>> THEN <<>>
    ELSE InsertJob(heap, SortJobs(heap, SubSeq(jobs, 1, Len(jobs) - 1)),
                   jobs[Len(jobs)])

\* TaskScheduler.__init__, and the empty job list of the schedule module
SC_Init ==
    /\ sc_heap = <<>>
    /\ sc_jobs = <<>>
    /\ sc_running = FALSE
    /\ sc_pc = "idle"
    /\ sc_i = 1
    /\ sc_runnable = <<>>
    /\ sc_now = 0
    /\ sc_collected = {}
    /\ sc_early = {}
    /\ sc_due = <<>>
    /\ sc_tick = <<>>

\* TaskScheduler.start
SC_Start ==
    /\ ~sc_running
    /\ sc_running' = TRUE
    /\ sc_pc' = "scan"
    /\ UNCHANGED <<sc_heap, sc_jobs, sc_i, sc_runnable, sc_now,
                   sc_collected, sc_early, sc_due, sc_tick>>
    /\ UNCHANGED SC_Others

\* TaskScheduler.schedule_task; it returns False, and registers nothing,
\* when the interval has no period
SC_Schedule ==
    /\ \E input \in ScheduleInputs :
          LET task_id  == input[1]
              interval == input[2]
              period   == IntervalPeriod(interval)
          IN IF IsNone(period)
             THEN UNCHANGED <<sc_heap, sc_jobs>>
             ELSE /\ Len(sc_heap) < MaxJobs
                  /\ sc_heap' = Append(sc_heap,
                                       NewJob(task_id, Val(period), sc_now))
                  /\ sc_jobs' = Append(sc_jobs, Len(sc_heap) + 1)
    /\ UNCHANGED <<sc_running, sc_pc, sc_i, sc_runnable, sc_now, sc_collected,
                   sc_early, sc_due, sc_tick>>
    /\ UNCHANGED SC_Others

\* TaskScheduler.cancel_task; it returns True iff it found a job
SC_Cancel ==
    /\ \E task_id \in TaskIds :
          LET jobs == get_jobs(sc_heap, sc_jobs, task_id)
          IN IF jobs = <<>>
             THEN UNCHANGED <<sc_jobs, sc_early>>
             ELSE /\ sc_jobs' = SelectSeq(sc_jobs,
                                          LAMBDA j : j \notin JobsToCancel(jobs))
                  /\ sc_early' = sc_early \cup (Range(jobs) \ sc_collected)
    /\ UNCHANGED <<sc_heap, sc_running, sc_pc, sc_i, sc_runnable, sc_now,
                   sc_collected, sc_due, sc_tick>>
    /\ UNCHANGED SC_Others

\* schedule.run_pending, collecting: one step of the iteration over
\* schedule.jobs (a job is due when now >= next_run), or at its end the sort
SC_Scan ==
    /\ sc_pc = "scan"
    /\ IF sc_i <= Len(sc_jobs)
       THEN LET j == sc_jobs[sc_i]
            IN /\ sc_i' = sc_i + 1
               /\ IF sc_now >= sc_heap[j].next_run
                  THEN /\ sc_runnable' = Append(sc_runnable, j)
                       /\ sc_collected' = sc_collected \cup {j}
                  ELSE UNCHANGED <<sc_runnable, sc_collected>>
               /\ UNCHANGED <<sc_pc, sc_due>>
       ELSE /\ sc_runnable' = SortJobs(sc_heap, sc_runnable)
            /\ sc_due' = sc_runnable'
            /\ sc_pc' = IF sc_runnable = <<>> THEN "sleep" ELSE "run"
            /\ UNCHANGED <<sc_i, sc_collected>>
    /\ UNCHANGED <<sc_heap, sc_jobs, sc_running, sc_now, sc_early, sc_tick>>
    /\ UNCHANGED SC_Others

\* schedule.run_pending, running the next due job: Job.run calls
\* task_wrapper, sets last_run and schedules the next run; an exception
\* leaving task_wrapper would leave run_pending and be logged by
\* _run_scheduler, which then loops without sleeping
SC_Run ==
    /\ sc_pc = "run"
    /\ LET j == sc_runnable[1]
       IN \E raises \in BOOLEAN :
             /\ sc_tick' = Append(sc_tick, [job |-> j, raised |-> raises])
             /\ IF WrapperPropagates(raises)
                THEN /\ sc_heap' = [sc_heap EXCEPT ![j].runs = @ + 1,
                                                   ![j].failed = TRUE]
                     /\ sc_runnable' = <<>>
                     /\ sc_i' = 1
                     /\ sc_pc' = "scan"
                ELSE /\ sc_heap' = [sc_heap EXCEPT
                                       ![j].runs = @ + 1,
                                       ![j].last_run = Some(sc_now),
                                       ![j].next_run = sc_now + sc_heap[j].period,
                                       ![j].failed = @ \/ raises]
                     /\ sc_runnable' = Tail(sc_runnable)
                     /\ sc_i' = sc_i
                     /\ sc_pc' = IF Len(sc_runnable) > 1 THEN "run" ELSE "sleep"
    /\ UNCHANGED <<sc_jobs, sc_running, sc_now, sc_collected, sc_early,
                   sc_due>>
    /\ UNCHANGED SC_Others

\* _run_scheduler: time.sleep(1), then the next run_pending
SC_Sleep ==
    /\ sc_pc = "sleep"
    /\ sc_running
    /\ \E d \in TickMinutes :
          /\ sc_now + d <= MaxTime
          /\ sc_now' = sc_now + d
    /\ sc_pc' = "scan"
    /\ sc_i' = 1
    /\ sc_runnable' = <<>>
    /\ sc_due' = <<>>
    /\ sc_tick' = <<>>
    /\ UNCHANGED <<sc_heap, sc_jobs, sc_running, sc_collected, sc_early>>
    /\ UNCHANGED SC_Others

SC_Next ==
    \/ SC_Start
    \/ SC_Schedule
    \/ SC_Cancel
    \/ SC_Scan
    \/ SC_Run
    \/ SC_Sleep

\* ------------------------------------------------------------------------
\* Trading strategies (utils/strategies.py): indicators and analyze
\*
\* Prices are integers.  A float quotient is kept as the exact fraction
\* <<numerator, denominator>> with a positive denominator and fractions
\* are compared by cross-multiplication, so that <, <=, > and >= between
\* two averages are decided as for the exact quotients.
\* ------------------------------------------------------------------------
\* TradingSignal
BUY == "buy"

SELL == "sell"

HOLD == "hold"

FracLT(a, b) == a[1] * b[2] < b[1] * a[2]

FracLE(a, b) == a[1] * b[2] <= b[1] * a[2]

RECURSIVE SumSeq(_)
\* sum(list)
SumSeq(s) == IF s = <<>> THEN 0 ELSE s[1] + SumSeq(Tail(s))

RECURSIVE Power(_, _)
Power(b, e) == IF e = 0 THEN 1 ELSE b * Power(b, e - 1)

\* a plausible slip: the window stops one price early
SmaWindow_short(prices, period, k) == SubSeq(prices, k, k + period - 2)

\* prices[i:i+period] for the 0-based i = k - 1
SmaWindow(prices, period, k) == SubSeq(prices, k, k + period - 1)

\* Strategy.get_historical_data, as the repository defines it: a placeholder
\* that returns no candle.  A source of kind "candles" or "raises" stands
\* for a get_historical_data that a subclass puts in its place, returning
\* the given candles or raising.  A candle is <<close>>, or <<>> when
\* float(candle['close']) raises.
get_historical_data(src) == IF src.kind = "candles" THEN src.candles ELSE <<>>

SourceRaises(src) == src.kind = "raises"

\* a division by the period raises ZeroDivisionError
DividesByZero(prices, period) == period = 0 /\ Len(prices) >= period

\* SMAStrategy.calculate_sma
calculate_sma(prices, period) ==
    IF Len(prices) < period THEN <<>>
    ELSE [k \in 1..(Len(prices) - period + 1) |->
              <<SumSeq(SmaWindow(prices, period, k)), period>>]

RECURSIVE EmaValues(_, _, _)
\* EMAStrategy.calculate_ema: the first n values of ema_values
EmaValues(prices, period, n) ==
    IF n = 1 THEN << <<SumSeq(SubSeq(prices, 1, period)), period>> >>
    ELSE LET before == EmaValues(prices, period, n - 1)
             last   == before[n - 1]
             price  == prices[period + n - 1]
         IN Append(before, <<2 * price * last[2] + last[1] * (period - 1),
                             last[2] * (period + 1)>>)

\* EMAStrategy.calculate_ema
calculate_ema(prices, period) ==
    IF Len(prices) < period THEN <<>>
    ELSE EmaValues(prices, period, Len(prices) - period + 1)

\* the signal of a crossover between the last two points of two averages
CrossoverSignal(short, long) ==
    LET current_short == short[Len(short)]
        current_long  == long[Len(long)]
        prev_short    == short[Len(short) - 1]
        prev_long     == long[Len(long) - 1]
    IN IF FracLE(prev_short, prev_long) /\ FracLT(current_long, current_short)
       THEN BUY
       ELSE IF FracLE(prev_long, prev_short) /\ FracLT(current_short, current_long)
            THEN SELL
            ELSE HOLD

\* the outcome of the body of an analyze method: the signal it computes,
\* whether an exception was raised inside the try block, and whether
\* last_signal and last_update were assigned
Computed(signal) == [signal |-> signal, raised |-> FALSE, updated |-> TRUE]

NoData == [signal |-> HOLD, raised |-> FALSE, updated |-> FALSE]

Raised == [signal |-> HOLD, raised |-> TRUE, updated |-> FALSE]

\* [float(candle['close']) for candle in candles]
ClosePrices(candles) == [k \in 1..Len(candles) |-> candles[k][1]]

BadCandle(candles) == \E k \in 1..Len(candles) : candles[k] = <<>>

\* the candles an analyze method requires
EnoughCandles(candles, period) == Len(candles) >= period + 2

\* SMAStrategy.analyze, inside the try block
SMA_body(s, src) ==
    LET candles == get_historical_data(src)
        prices  == ClosePrices(candles)
        short   == calculate_sma(prices, s.short_period)
        long    == calculate_sma(prices, s.long_period)
    IN IF SourceRaises(src) THEN Raised
       ELSE IF candles = <<>> \/ ~EnoughCandles(candles, s.long_period) THEN NoData
       ELSE IF BadCandle(candles) THEN Raised
       ELSE IF DividesByZero(prices, s.short_period) THEN Raised
       ELSE IF DividesByZero(prices, s.long_period) THEN Raised
       ELSE IF short = <<>> \/ long = <<>> THEN NoData
       ELSE IF Len(short) < 2 \/ Len(long) < 2 THEN NoData
       ELSE Computed(CrossoverSignal(short, long))

\* EMAStrategy.analyze, inside the try block
EMA_body(s, src) ==
    LET candles == get_historical_data(src)
        prices  == ClosePrices(candles)
        short   == calculate_ema(prices, s.short_period)
        long    == calculate_ema(prices, s.long_period)
    IN IF SourceRaises(src) THEN Raised
       ELSE IF candles = <<>> \/ ~EnoughCandles(candles, s.long_period) THEN NoData
       ELSE IF BadCandle(candles) THEN Raised
       ELSE IF DividesByZero(prices, s.short_period) THEN Raised
       ELSE IF DividesByZero(prices, s.long_period) THEN Raised
       ELSE IF short = <<>> \/ long = <<>> THEN NoData
       ELSE IF Len(short) < 2 \/ Len(long) < 2 THEN NoData
       ELSE Computed(CrossoverSignal(short, long))

\* RSIStrategy.calculate_rsi: deltas, gains and losses
Deltas(prices) == [k \in 1..(Len(prices) - 1) |-> prices[k + 1] - prices[k]]

Gains(deltas) == [k \in 1..Len(deltas) |-> IF deltas[k] > 0 THEN deltas[k] ELSE 0]

Losses(deltas) == [k \in 1..Len(deltas) |-> IF deltas[k] < 0 THEN 0 - deltas[k] ELSE 0]

RECURSIVE AvgNum(_, _, _)
\* RSIStrategy.calculate_rsi: the smoothed average after k smoothing steps,
\* as the numerator of a fraction whose denominator is period^(k+1)
AvgNum(vals, period, k) ==
    IF k = 0 THEN SumSeq(SubSeq(vals, 1, period))
    ELSE AvgNum(vals, period, k - 1) * (period - 1)
             + vals[period + k] * Power(period, k)

\* RSIStrategy.calculate_rsi: each RSI value is 100 when avg_loss is 0 and
\* 100 * avg_gain / (avg_gain + avg_loss) otherwise; it is kept as the
\* fraction of the two numerators
calculate_rsi(prices, period) ==
    IF Len(prices) <= period THEN <<>>
    ELSE LET deltas == Deltas(prices)
             gains  == Gains(deltas)
             losses == Losses(deltas)
         IN [j \in 1..(Len(deltas) - period + 1) |->
                LET g == AvgNum(gains, period, j - 1)
                    l == AvgNum(losses, period, j - 1)
                IN IF l = 0 THEN <<100, 1>> ELSE <<100 * g, g + l>>]

\* a plausible slip: the thresholds themselves give no signal
RSI_body_strict(s, src) ==
    LET candles == get_historical_data(src)
        prices  == ClosePrices(candles)
        rsi     == calculate_rsi(prices, s.period)
        current == rsi[Len(rsi)]
    IN IF SourceRaises(src) THEN Raised
       ELSE IF candles = <<>> \/ ~EnoughCandles(candles, s.period) THEN NoData
       ELSE IF BadCandle(candles) THEN Raised
       ELSE IF DividesByZero(prices, s.period) THEN Raised
       ELSE IF rsi = <<>> THEN NoData
       ELSE IF FracLT(current, <<s.oversold, 1>>) THEN Computed(BUY)
       ELSE IF FracLT(<<s.overbought, 1>>, current) THEN Computed(SELL)
       ELSE Computed(HOLD)

\* RSIStrategy.analyze, inside the try block
RSI_body(s, src) ==
    LET candles == get_historical_data(src)
        prices  == ClosePrices(candles)
        rsi     == calculate_rsi(prices, s.period)
        current == rsi[Len(rsi)]
    IN IF SourceRaises(src) THEN Raised
       ELSE IF candles = <<>> \/ ~EnoughCandles(candles, s.period) THEN NoData
       ELSE IF BadCandle(candles) THEN Raised
       ELSE IF DividesByZero(prices, s.period) THEN Raised
       ELSE IF rsi = <<>> THEN NoData
       ELSE IF FracLE(current, <<s.oversold, 1>>) THEN Computed(BUY)
       ELSE IF FracLE(<<s.overbought, 1>>, current) THEN Computed(SELL)
       ELSE Computed(HOLD)

\* sum of the squares of a list
SumSquares(s) == SumSeq([k \in 1..Len(s) |-> s[k] * s[k]])

\* BollingerBandsStrategy.calculate_bollinger_bands on the last window:
\* with S the sum, Q the sum of squares and n the period, the middle band
\* is S/n and np.std is sqrt(n*Q - S*S)/n; the price p is at or under the
\* lower band iff S - n*p >= std_dev * sqrt(n*Q - S*S)
AtOrUnderLower(window, price, std_dev) ==
    LET n == Len(window)
        S == SumSeq(window)
        V == n * SumSquares(window) - S * S
        d == S - n * price
    IN d >= 0 /\ d * d >= std_dev * std_dev * V

AtOrOverUpper(window, price, std_dev) ==
    LET n == Len(window)
        S == SumSeq(window)
        V == n * SumSquares(window) - S * S
        d == n * price - S
    IN d >= 0 /\ d * d >= std_dev * std_dev * V

\* BollingerBandsStrategy.analyze, inside the try block
BB_body(s, src) ==
    LET candles == get_historical_data(src)
        prices  == ClosePrices(candles)
        window  == SubSeq(prices, Len(prices) - s.period + 1, Len(prices))
        price   == prices[Len(prices)]
    IN IF SourceRaises(src) THEN Raised
       ELSE IF candles = <<>> \/ ~EnoughCandles(candles, s.period) THEN NoData
       ELSE IF BadCandle(candles) THEN Raised
       ELSE IF DividesByZero(prices, s.period) THEN Raised
       ELSE IF AtOrUnderLower(window, price, s.std_dev) THEN Computed(BUY)
       ELSE IF AtOrOverUpper(window, price, s.std_dev) THEN Computed(SELL)
       ELSE Computed(HOLD)

\* the try block of the analyze method of the strategy's class; the base
\* class Strategy (any other strategy_type) returns HOLD
AnalyzeBody(s, src) ==
    IF s.strategy_type = "sma_crossover" THEN SMA_body(s, src)
    ELSE IF s.strategy_type = "ema_crossover" THEN EMA_body(s, src)
    ELSE IF s.strategy_type = "rsi" THEN RSI_body(s, src)
    ELSE IF s.strategy_type = "bollinger_bands" THEN BB_body(s, src)
    ELSE NoData

\* except Exception in analyze: whether an exception raised inside the try
\* block leaves the method
analyze_propagates_uncaught(s, raised) == raised

analyze_propagates(s, raised) == FALSE

\* Strategy.analyze and its overrides: the value returned (HOLD after an
\* exception), whether an exception left the method, and the strategy
\* object afterwards
analyze(s, src) ==
    LET b == AnalyzeBody(s, src)
    IN [signal     |-> b.signal,
        propagated |-> analyze_propagates(s, b.raised),
        strategy   |-> IF b.updated THEN [s EXCEPT !.last_signal = b.signal] ELSE s]

\* ------------------------------------------------------------------------
\* StrategyManager (utils/strategies.py)
\* ------------------------------------------------------------------------
\* SMAStrategy.__init__
SMAStrategy(name, short_period, long_period) ==
    [name          |-> name,
     strategy_type |-> "sma_crossover",
     short_period  |-> short_period,
     long_period   |-> long_period,
     last_signal   |-> HOLD]

\* EMAStrategy.__init__
EMAStrategy(name, short_period, long_period) ==
    [name          |-> name,
     strategy_type |-> "ema_crossover",
     short_period  |-> short_period,
     long_period   |-> long_period,
     last_signal   |-> HOLD]

\* RSIStrategy.__init__ with the default thresholds
RSIStrategy(name, period) ==
    [name          |-> name,
     strategy_type |-> "rsi",
     period        |-> period,
     overbought    |-> 70,
     oversold      |-> 30,
     last_signal   |-> HOLD]

\* BollingerBandsStrategy.__init__
BollingerBandsStrategy(name, period, std_dev) ==
    [name          |-> name,
     strategy_type |-> "bollinger_bands",
     period        |-> period,
     std_dev       |-> std_dev,
     last_signal   |-> HOLD]

\* Strategy.__init__ of the base class
Strategy(name, strategy_type) ==
    [name          |-> name,
     strategy_type |-> strategy_type,
     last_signal   |-> HOLD]

Placeholder == [kind |-> "placeholder", candles |-> <<>>]

FailingSource == [kind |-> "raises", candles |-> <<>>]

\* a get_historical_data returning candles with the given closes
CandlesOf(closes) ==
    [kind |-> "candles", candles |-> [k \in 1..Len(closes) |-> <<closes[k]>>]]

\* the same, the candle at position bad lacking a usable 'close'
CandlesLacking(closes, bad) ==
    [kind    |-> "candles",
     candles |-> [k \in 1..Len(closes) |-> IF k = bad THEN <<>> ELSE <<closes[k]>>]]

StrategyNames == {"s1", "s2"}

StrategyInputs ==
    {SMAStrategy("s1", 1, 2), BollingerBandsStrategy("s1", 2, 1),
     RSIStrategy("s2", 2), Strategy("s2", "custom")}

SM_Sources ==
    {Placeholder, FailingSource,
     CandlesOf(<<2, 2, 1, 3>>), CandlesOf(<<2, 2, 3, 1>>),
     CandlesOf(<<2, 2, 2, 2>>), CandlesOf(<<1, 2, 3, 2>>),
     CandlesLacking(<<2, 2, 1, 3>>, 2)}

\* StrategyManager.__init__
SM_Init ==
    /\ sm_strategies = <<>>
    /\ sm_execs = 0
    /\ sm_last = None

\* StrategyManager.add_strategy
SM_Add ==
    /\ \E strategy \in StrategyInputs :
           sm_strategies' = DictSet(sm_strategies, strategy.name, strategy)
    /\ UNCHANGED <<sm_execs, sm_last>>
    /\ UNCHANGED SM_Others

\* StrategyManager.remove_strategy
SM_Remove ==
    /\ \E strategy_name \in StrategyNames :
           /\ DictHas(sm_strategies, strategy_name)
           /\ sm_strategies' = DictDel(sm_strategies, strategy_name)
    /\ UNCHANGED <<sm_execs, sm_last>>
    /\ UNCHANGED SM_Others

\* StrategyManager.get_strategy: self.strategies.get(strategy_name)
get_strategy(strategies, strategy_name) ==
    IF DictHas(strategies, strategy_name)
    THEN Some(DictGet(strategies, strategy_name))
    ELSE None

\* a plausible slip: the callback is invoked for every signal
OrderCallbackDue_always(signal) == TRUE

\* execute_strategy: "if signal != TradingSignal.HOLD"
OrderCallbackDue(signal) == signal # HOLD

\* StrategyManager.execute_strategy.  get_exchange, analyze and the order
\* callback may each raise; the except clause turns that into None.
SM_Execute ==
    /\ sm_execs < MaxExecs
    /\ \E strategy_name \in StrategyNames, src \in SM_Sources,
          exchange_raises \in BOOLEAN, callback_raises \in BOOLEAN :
         LET found    == get_strategy(sm_strategies, strategy_name)
             a        == analyze(Val(found), src)
             analyzed == ~IsNone(found) /\ ~exchange_raises
             returned == analyzed /\ ~a.propagated
             called   == returned /\ OrderCallbackDue(a.signal)
             after    == IF analyzed
                         THEN DictSet(sm_strategies, strategy_name, a.strategy)
                         ELSE sm_strategies
         IN /\ IsNone(found) => ~exchange_raises /\ ~callback_raises
            /\ ~called => ~callback_raises
            /\ sm_strategies' = after
            /\ sm_last' = Some(
                 [name     |-> strategy_name,
                  before   |-> sm_strategies,
                  after    |-> after,
                  analyzed |-> IF analyzed THEN <<Val(found)>> ELSE <<>>,
                  signal   |-> IF returned THEN Some(a.signal) ELSE None,
                  calls    |-> IF called THEN << <<a.strategy, a.signal>> >>
                               ELSE <<>>,
                  result   |-> IF returned /\ ~(called /\ callback_raises)
                               THEN Some(a.signal) ELSE None])
            /\ sm_execs' = sm_execs + 1
    /\ UNCHANGED SM_Others

SM_Next ==
    \/ SM_Add
    \/ SM_Remove
    \/ SM_Execute

\* ------------------------------------------------------------------------
\* A crossover strategy analysed once per appended candle
\* ------------------------------------------------------------------------
\* the closes of end-to-end scenario 2
ScenarioCloses == <<10, 10, 10, 10, 10, 12, 14, 16>>

SmallCloses == {1, 2, 3}

CloseSeries == {ScenarioCloses} \cup [1..MaxCandles -> SmallCloses]

CrossoverInputs ==
    {SMAStrategy("x", 3, 5), SMAStrategy("x", 1, 2), EMAStrategy("x", 1, 2)}

CX_Off ==
    /\ cx_strategy = SMAStrategy("x", 3, 5)
    /\ cx_kind = "placeholder"
    /\ cx_series = <<>>
    /\ cx_n = 0
    /\ cx_signals = <<>>

CX_Init ==
    /\ cx_strategy \in CrossoverInputs
    /\ cx_kind \in {"placeholder", "candles"}
    /\ cx_series \in CloseSeries
    /\ cx_n = 0
    /\ cx_signals = <<>>

\* the candle source after n candles
SourceAfter(kind, series, n) ==
    IF kind = "candles" THEN CandlesOf(SubSeq(series, 1, n)) ELSE Placeholder

\* a candle closes and the strategy is analysed
CX_Append ==
    /\ cx_n < Len(cx_series)
    /\ LET a == analyze(cx_strategy, SourceAfter(cx_kind, cx_series, cx_n + 1))
       IN /\ cx_strategy' = a.strategy
          /\ cx_signals' = Append(cx_signals, a.signal)
    /\ cx_n' = cx_n + 1
    /\ UNCHANGED <<cx_kind, cx_series>>
    /\ UNCHANGED CX_Others

CX_Next == CX_Append

\* ------------------------------------------------------------------------
\* One analyze call on any strategy with any candle source
\* ------------------------------------------------------------------------
AnalyzeInputs ==
    {SMAStrategy("x", 1, 2), SMAStrategy("x", 0, 1), EMAStrategy("x", 1, 2),
     EMAStrategy("x", 0, 1), RSIStrategy("x", 2), RSIStrategy("x", 0),
     RSIStrategy("x", 1),
     [RSIStrategy("x", 2) EXCEPT !.oversold = 50, !.overbought = 75],
     BollingerBandsStrategy("x", 2, 1), BollingerBandsStrategy("x", 0, 1),
     Strategy("x", "custom")}

AnalyzeCloses == {1, 3}

\* every list of at most MaxAnalyzed closes
CloseLists == UNION {[1..n -> AnalyzeCloses] : n \in 0..MaxAnalyzed}

AnalyzeSources ==
    {Placeholder, FailingSource}
        \cup {CandlesOf(closes) : closes \in CloseLists}
        \cup {CandlesLacking(closes, Len(closes)) : closes \in CloseLists \ {<<>>}}

AN_Off ==
    /\ an_strategy = Strategy("x", "custom")
    /\ an_src = Placeholder
    /\ an_result = None

AN_Init ==
    /\ an_strategy \in AnalyzeInputs
    /\ an_src \in AnalyzeSources
    /\ an_result = None

\* strategy.analyze(exchange_instance)
AN_Call ==
    /\ IsNone(an_result)
    /\ LET a == analyze(an_strategy, an_src)
       IN /\ an_strategy' = a.strategy
          /\ an_result' = Some([signal |-> a.signal, propagated |-> a.propagated])
    /\ UNCHANGED an_src
    /\ UNCHANGED AN_Others

AN_Next == AN_Call

\* ------------------------------------------------------------------------
\* One calculate_sma call
\* ------------------------------------------------------------------------
SmaPrices == {1, 2, 4}

\* every list of at most MaxPrices prices
PriceLists == UNION {[1..n -> SmaPrices] : n \in 0..MaxPrices}

Periods == 1..(MaxPrices + 1)

MA_Off ==
    /\ ma_prices = <<>>
    /\ ma_period = 1
    /\ ma_result = None

MA_Init ==
    /\ ma_prices \in PriceLists
    /\ ma_period \in Periods
    /\ ma_result = None

\* self.calculate_sma(prices, period)
MA_Call ==
    /\ IsNone(ma_result)
    /\ ma_result' = Some(calculate_sma(ma_prices, ma_period))
    /\ UNCHANGED <<ma_prices, ma_period>>
    /\ UNCHANGED MA_Others

MA_Next == MA_Call

\* ------------------------------------------------------------------------
\* Start and stop of a monitor and its loop threads
\* (PriceAlertManager, MemeSniper and TaskScheduler share this code shape)
\* ------------------------------------------------------------------------
Monitors == {"alerts", "sniper", "scheduler"}

\* join(timeout=5), in seconds
JoinTimeout == 5

\* check_interval of PriceAlertManager and of MemeSniper, in seconds
CheckInterval == 60

\* time.sleep(1) of the scheduler loop, in seconds
SchedulerSleep == 1

\* the seconds a loop thread sleeps between two cycles
SleepSeconds(monitor) ==
    IF monitor = "scheduler" THEN SchedulerSleep ELSE CheckInterval

\* a plausible slip: join() without a timeout returns only at the thread's end
JoinMayTimeOut_never(monitor, pc) == FALSE

\* join(timeout=5) can return while the thread is alive: the thread is
\* inside a cycle (network calls, scheduled tasks) that outlasts the
\* timeout, or it is asleep for longer than the timeout
JoinMayTimeOut(monitor, pc) ==
    \/ pc = "cycle"
    \/ pc = "sleep" /\ SleepSeconds(monitor) > JoinTimeout

LC_Off ==
    /\ lc_monitor = "alerts"
    /\ lc_running = FALSE
    /\ lc_thread = None
    /\ lc_threads = <<>>
    /\ lc_cmd = "idle"
    /\ lc_last = "none"
    /\ lc_stops = 0
    /\ lc_raised = {}

\* __init__ of the monitor
LC_Init ==
    /\ lc_monitor \in Monitors
    /\ lc_running = FALSE
    /\ lc_thread = None
    /\ lc_threads = <<>>
    /\ lc_cmd = "idle"
    /\ lc_last = "none"
    /\ lc_stops = 0
    /\ lc_raised = {}

\* start_monitoring / start: "if self.running: return"
StartReturnsEarly(running) == running

\* start_monitoring / start
LC_Start ==
    /\ lc_cmd = "idle"
    /\ IF StartReturnsEarly(lc_running)
       THEN /\ lc_last' = "already_running"
            /\ UNCHANGED <<lc_running, lc_thread, lc_threads, lc_stops>>
       ELSE /\ Len(lc_threads) < MaxThreads
            /\ lc_running' = TRUE
            /\ lc_threads' = Append(lc_threads, "test")
            /\ lc_thread' = Some(Len(lc_threads) + 1)
            /\ lc_last' = "started"
            /\ lc_stops' = 0
    /\ UNCHANGED <<lc_monitor, lc_cmd, lc_raised>>
    /\ UNCHANGED LC_Others

\* stop_monitoring / stop, up to the join
LC_Stop ==
    /\ lc_cmd = "idle"
    /\ lc_stops < MaxStops
    /\ lc_running' = FALSE
    /\ IF IsNone(lc_thread)
       THEN /\ lc_last' = "stopped"
            /\ lc_cmd' = "idle"
            /\ lc_stops' = lc_stops + 1
       ELSE /\ lc_last' = lc_last
            /\ lc_cmd' = "joining"
            /\ lc_stops' = lc_stops
    /\ UNCHANGED <<lc_monitor, lc_thread, lc_threads, lc_raised>>
    /\ UNCHANGED LC_Others

\* stop_monitoring / stop: join(timeout=5) returns, the thread having
\* ended or the timeout having passed, and the handle is dropped
LC_JoinReturns ==
    /\ lc_cmd = "joining"
    /\ \/ /\ lc_threads[Val(lc_thread)] = "exit"
          /\ lc_last' = "stopped"
       \/ /\ JoinMayTimeOut(lc_monitor, lc_threads[Val(lc_thread)])
          /\ lc_last' = "stopped_after_timeout"
    /\ lc_thread' = None
    /\ lc_cmd' = "idle"
    /\ lc_stops' = lc_stops + 1
    /\ UNCHANGED <<lc_monitor, lc_running, lc_threads, lc_raised>>
    /\ UNCHANGED LC_Others

\* the loop of thread t: "while self.running"
LC_TestOf(t) ==
    /\ t \in 1..Len(lc_threads)
    /\ lc_threads[t] = "test"
    /\ lc_threads' = [lc_threads EXCEPT
                         ![t] = IF lc_running THEN "cycle" ELSE "exit"]
    /\ UNCHANGED <<lc_monitor, lc_running, lc_thread, lc_cmd, lc_last, lc_stops,
                   lc_raised>>
    /\ UNCHANGED LC_Others

LC_Test == \E t \in 1..MaxThreads : LC_TestOf(t)

\* a plausible slip: no except clause, an exception ends the loop thread
AfterCycle_uncaught(monitor, raises) == IF raises THEN "exit" ELSE "sleep"

\* where the loop goes on after a cycle.  _monitor_prices and
\* _monitor_tokens catch the exception of a cycle and sleep as after any
\* cycle; _run_scheduler has time.sleep(1) inside the try block, so an
\* exception takes it straight back to "while self.running"
AfterCycle(monitor, raises) == IF raises /\ monitor = "scheduler" THEN "test" ELSE "sleep"

\* the loop of a thread: one cycle (_check_alerts, _update_token_data and
\* _check_alerts, or schedule.run_pending) ends, having raised or not
LC_Cycle ==
    /\ \E t \in 1..Len(lc_threads), raises \in BOOLEAN :
          /\ lc_threads[t] = "cycle"
          /\ lc_threads' = [lc_threads EXCEPT ![t] = AfterCycle(lc_monitor, raises)]
          /\ lc_raised' = IF raises THEN lc_raised \cup {t} ELSE lc_raised \ {t}
    /\ UNCHANGED <<lc_monitor, lc_running, lc_thread, lc_cmd, lc_last, lc_stops>>
    /\ UNCHANGED LC_Others

\* the loop of thread t: time.sleep returns
LC_WakeOf(t) ==
    /\ t \in 1..Len(lc_threads)
    /\ lc_threads[t] = "sleep"
    /\ lc_threads' = [lc_threads EXCEPT ![t] = "test"]
    /\ UNCHANGED <<lc_monitor, lc_running, lc_thread, lc_cmd, lc_last, lc_stops,
                   lc_raised>>
    /\ UNCHANGED LC_Others

LC_Wake == \E t \in 1..MaxThreads : LC_WakeOf(t)

LC_Next ==
    \/ LC_Start
    \/ LC_Stop
    \/ LC_JoinReturns
    \/ LC_Test
    \/ LC_Cycle
    \/ LC_Wake

\* ------------------------------------------------------------------------
\* Serialisation: isoformat / fromisoformat, JSON text, to_dict / from_dict
\* ------------------------------------------------------------------------
\* A datetime is its count of microseconds.
MicrosPerSecond == 1000000

\* the digits of the microsecond field
MicroDigits == 6

RECURSIVE ZeroPad(_, _)
\* f"{n:06d}": digits padded with zeros on the left up to width
ZeroPad(digits, width) ==
    IF Len(digits) >= width THEN digits
    ELSE ZeroPad(<<"0">> \o digits, width)

\* datetime.isoformat(): the date and time to the second (written here as
\* the count of seconds, for 'YYYY-MM-DDTHH:MM:SS'), followed by '.' and
\* six digits of microseconds unless the microseconds are 0
isoformat(t) ==
    IntToStr(t \div MicrosPerSecond) \o
    (IF t % MicrosPerSecond = 0 THEN <<>>
     ELSE <<".">> \o ZeroPad(IntToStr(t % MicrosPerSecond), MicroDigits))

\* datetime.fromisoformat(s): the digits after '.' are a decimal fraction
\* of a second
fromisoformat(s) ==
    LET parts == SplitFirst(s, ".")
    IN StrToNat(parts[1]) * MicrosPerSecond +
       (IF Len(parts) = 2
        THEN StrToNat(parts[2]) * Power(10, MicroDigits - Len(parts[2]))
        ELSE 0)

S_null == <<"n","u","l","l">>

S_true == <<"t","r","u","e">>

S_false == <<"f","a","l","s","e">>

\* json.dump of a str (no character of the strings used needs an escape)
JsonStr(s) == <<"\"">> \o s \o <<"\"">>

\* json.load of a string literal
ParseJsonStr(text) == SubSeq(text, 2, Len(text) - 1)

\* json.dump / json.load of a token id, which the model keeps whole
JsonId(id) == <<"\"", id, "\"">>

ParseJsonId(text) == text[2]

\* json.dump / json.load of a number
JsonNum(n) == IntToStr(n)

ParseJsonNum(text) == StrToNat(text)

\* json.dump / json.load of a bool
JsonBool(b) == IF b THEN S_true ELSE S_false

ParseJsonBool(text) == text = S_true

\* json.dump / json.load of an Optional number
JsonOptNum(o) == IF IsNone(o) THEN S_null ELSE JsonNum(Val(o))

ParseJsonOptNum(text) == IF text = S_null THEN None ELSE Some(ParseJsonNum(text))

\* json.dump / json.load of an Optional str
JsonOptStr(o) == IF IsNone(o) THEN S_null ELSE JsonStr(Val(o))

ParseJsonOptStr(text) == IF text = S_null THEN None ELSE Some(ParseJsonStr(text))

\* json.dump / json.load of a list of str
JsonStrList(l) == [i \in 1..Len(l) |-> JsonStr(l[i])]

ParseJsonStrList(texts) == [i \in 1..Len(texts) |-> ParseJsonStr(texts[i])]

\* json.dump / json.load of a list of token ids
JsonIdList(l) == [i \in 1..Len(l) |-> JsonId(l[i])]

ParseJsonIdList(texts) == [i \in 1..Len(texts) |-> ParseJsonId(texts[i])]

\* PriceAlert.to_dict
PriceAlert_to_dict(alert) ==
    [alert_id     |-> alert.alert_id,
     user_id      |-> alert.user_id,
     symbol       |-> alert.symbol,
     exchange     |-> alert.exchange,
     target_price |-> alert.target_price,
     condition    |-> alert.condition,
     created_at   |-> isoformat(alert.created_at),
     triggered    |-> alert.triggered]

\* a plausible slip: the triggered flag is not restored
PriceAlert_from_dict_fresh(data, now) ==
    [PriceAlert(data.user_id, data.symbol, data.exchange, data.target_price,
                data.condition, now)
        EXCEPT !.alert_id = IF data.alert_id # <<>> THEN data.alert_id ELSE @,
               !.created_at = fromisoformat(data.created_at)]

\* PriceAlert.from_dict, called when the clock shows now
PriceAlert_from_dict(data, now) ==
    [PriceAlert(data.user_id, data.symbol, data.exchange, data.target_price,
                data.condition, now)
        EXCEPT !.alert_id = IF data.alert_id # <<>> THEN data.alert_id ELSE @,
               !.created_at = fromisoformat(data.created_at),
               !.triggered = data.triggered]

\* json.dump of the dictionary of a PriceAlert
PriceAlert_dump(data) ==
    [alert_id     |-> JsonStr(data.alert_id),
     user_id      |-> JsonNum(data.user_id),
     symbol       |-> JsonStr(data.symbol),
     exchange     |-> JsonStr(data.exchange),
     target_price |-> JsonNum(data.target_price),
     condition    |-> JsonStr(data.condition),
     created_at   |-> JsonStr(data.created_at),
     triggered    |-> JsonBool(data.triggered)]

\* json.load of the text of a PriceAlert
PriceAlert_load(text) ==
    [alert_id     |-> ParseJsonStr(text.alert_id),
     user_id      |-> ParseJsonNum(text.user_id),
     symbol       |-> ParseJsonStr(text.symbol),
     exchange     |-> ParseJsonStr(text.exchange),
     target_price |-> ParseJsonNum(text.target_price),
     condition    |-> ParseJsonStr(text.condition),
     created_at   |-> ParseJsonStr(text.created_at),
     triggered    |-> ParseJsonBool(text.triggered)]

\* MemeSniperAlert.to_dict
MemeSniperAlert_to_dict(alert) ==
    [alert_id          |-> alert.alert_id,
     user_id           |-> alert.user_id,
     min_price_change  |-> alert.min_price_change,
     min_volume_change |-> alert.min_volume_change,
     max_market_cap    |-> alert.max_market_cap,
     chains            |-> alert.chains,
     keywords          |-> alert.keywords,
     exclude_keywords  |-> alert.exclude_keywords,
     auto_buy          |-> alert.auto_buy,
     auto_buy_amount   |-> alert.auto_buy_amount,
     created_at        |-> isoformat(alert.created_at),
     triggered_tokens  |-> alert.triggered_tokens]

\* MemeSniperAlert.from_dict, called when the clock shows now
MemeSniperAlert_from_dict(data, now) ==
    [MemeSniperAlert(data.user_id, data.min_price_change,
                     data.min_volume_change, data.max_market_cap,
                     Some(data.chains), Some(data.keywords),
                     Some(data.exclude_keywords), data.auto_buy,
                     data.auto_buy_amount, now)
        EXCEPT !.alert_id = IF data.alert_id # <<>> THEN data.alert_id ELSE @,
               !.created_at = IF data.created_at # <<>>
                              THEN fromisoformat(data.created_at) ELSE now,
               !.triggered_tokens = data.triggered_tokens]

\* json.dump of the dictionary of a MemeSniperAlert
MemeSniperAlert_dump(data) ==
    [alert_id          |-> JsonStr(data.alert_id),
     user_id           |-> JsonNum(data.user_id),
     min_price_change  |-> JsonOptNum(data.min_price_change),
     min_volume_change |-> JsonOptNum(data.min_volume_change),
     max_market_cap    |-> JsonOptNum(data.max_market_cap),
     chains            |-> JsonStrList(data.chains),
     keywords          |-> JsonStrList(data.keywords),
     exclude_keywords  |-> JsonStrList(data.exclude_keywords),
     auto_buy          |-> JsonBool(data.auto_buy),
     auto_buy_amount   |-> JsonOptNum(data.auto_buy_amount),
     created_at        |-> JsonStr(data.created_at),
     triggered_tokens  |-> JsonIdList(data.triggered_tokens)]

\* json.load of the text of a MemeSniperAlert
MemeSniperAlert_load(text) ==
    [alert_id          |-> ParseJsonStr(text.alert_id),
     user_id           |-> ParseJsonNum(text.user_id),
     min_price_change  |-> ParseJsonOptNum(text.min_price_change),
     min_volume_change |-> ParseJsonOptNum(text.min_volume_change),
     max_market_cap    |-> ParseJsonOptNum(text.max_market_cap),
     chains            |-> ParseJsonStrList(text.chains),
     keywords          |-> ParseJsonStrList(text.keywords),
     exclude_keywords  |-> ParseJsonStrList(text.exclude_keywords),
     auto_buy          |-> ParseJsonBool(text.auto_buy),
     auto_buy_amount   |-> ParseJsonOptNum(text.auto_buy_amount),
     created_at        |-> ParseJsonStr(text.created_at),
     triggered_tokens  |-> ParseJsonIdList(text.triggered_tokens)]

\* MemeToken.to_dict
MemeToken_to_dict(token) ==
    [token_id         |-> token.token_id,
     symbol           |-> token.symbol,
     name             |-> token.name,
     chain            |-> token.chain,
     price            |-> token.price,
     market_cap       |-> token.market_cap,
     volume_24h       |-> token.volume_24h,
     price_change_24h |-> token.price_change_24h,
     created_at       |-> isoformat(token.created_at),
     last_updated     |-> isoformat(token.last_updated),
     price_history    |->
         [i \in 1..Len(token.price_history) |->
             [timestamp        |-> isoformat(token.price_history[i].timestamp),
              price            |-> token.price_history[i].price,
              price_change_24h |-> token.price_history[i].price_change_24h]],
     volume_history   |->
         [i \in 1..Len(token.volume_history) |->
             [timestamp |-> isoformat(token.volume_history[i].timestamp),
              volume    |-> token.volume_history[i].volume]]]

\* MemeToken.from_dict, called when the clock shows now
MemeToken_from_dict(data, now) ==
    [MemeToken(data.token_id, data.symbol, data.name, data.chain, data.price,
               data.market_cap, data.volume_24h, data.price_change_24h,
               IF data.created_at # <<>> THEN fromisoformat(data.created_at)
               ELSE now)
        EXCEPT !.last_updated = IF data.last_updated # <<>>
                                THEN fromisoformat(data.last_updated) ELSE now,
               !.price_history =
                   [i \in 1..Len(data.price_history) |->
                       [timestamp        |-> fromisoformat(data.price_history[i].timestamp),
                        price            |-> data.price_history[i].price,
                        price_change_24h |-> data.price_history[i].price_change_24h]],
               !.volume_history =
                   [i \in 1..Len(data.volume_history) |->
                       [timestamp |-> fromisoformat(data.volume_history[i].timestamp),
                        volume    |-> data.volume_history[i].volume]]]

\* json.dump of the dictionary of a MemeToken
MemeToken_dump(data) ==
    [token_id         |-> JsonId(data.token_id),
     symbol           |-> JsonStr(data.symbol),
     name             |-> JsonStr(data.name),
     chain            |-> JsonOptStr(data.chain),
     price            |-> JsonOptNum(data.price),
     market_cap       |-> JsonOptNum(data.market_cap),
     volume_24h       |-> JsonOptNum(data.volume_24h),
     price_change_24h |-> JsonOptNum(data.price_change_24h),
     created_at       |-> JsonStr(data.created_at),
     last_updated     |-> JsonStr(data.last_updated),
     price_history    |->
         [i \in 1..Len(data.price_history) |->
             [timestamp        |-> JsonStr(data.price_history[i].timestamp),
              price            |-> JsonNum(data.price_history[i].price),
              price_change_24h |-> JsonOptNum(data.price_history[i].price_change_24h)]],
     volume_history   |->
         [i \in 1..Len(data.volume_history) |->
             [timestamp |-> JsonStr(data.volume_history[i].timestamp),
              volume    |-> JsonNum(data.volume_history[i].volume)]]]

\* json.load of the text of a MemeToken
MemeToken_load(text) ==
    [token_id         |-> ParseJsonId(text.token_id),
     symbol           |-> ParseJsonStr(text.symbol),
     name             |-> ParseJsonStr(text.name),
     chain            |-> ParseJsonOptStr(text.chain),
     price            |-> ParseJsonOptNum(text.price),
     market_cap       |-> ParseJsonOptNum(text.market_cap),
     volume_24h       |-> ParseJsonOptNum(text.volume_24h),
     price_change_24h |-> ParseJsonOptNum(text.price_change_24h),
     created_at       |-> ParseJsonStr(text.created_at),
     last_updated     |-> ParseJsonStr(text.last_updated),
     price_history    |->
         [i \in 1..Len(text.price_history) |->
             [timestamp        |-> ParseJsonStr(text.price_history[i].timestamp),
              price            |-> ParseJsonNum(text.price_history[i].price),
              price_change_24h |-> ParseJsonOptNum(text.price_history[i].price_change_24h)]],
     volume_history   |->
         [i \in 1..Len(text.volume_history) |->
             [timestamp |-> ParseJsonStr(text.volume_history[i].timestamp),
              volume    |-> ParseJsonNum(text.volume_history[i].volume)]]]

\* the four conversions, by the class of the entity
to_dict(kind, entity) ==
    CASE kind = "price_alert"  -> PriceAlert_to_dict(entity)
      [] kind = "sniper_alert" -> MemeSniperAlert_to_dict(entity)
      [] kind = "token"        -> MemeToken_to_dict(entity)

from_dict(kind, data, now) ==
    CASE kind = "price_alert"  -> PriceAlert_from_dict(data, now)
      [] kind = "sniper_alert" -> MemeSniperAlert_from_dict(data, now)
      [] kind = "token"        -> MemeToken_from_dict(data, now)

json_dump(kind, data) ==
    CASE kind = "price_alert"  -> PriceAlert_dump(data)
      [] kind = "sniper_alert" -> MemeSniperAlert_dump(data)
      [] kind = "token"        -> MemeToken_dump(data)

json_load(kind, text) ==
    CASE kind = "price_alert"  -> PriceAlert_load(text)
      [] kind = "sniper_alert" -> MemeSniperAlert_load(text)
      [] kind = "token"        -> MemeToken_load(text)

\* ------------------------------------------------------------------------
\* One entity: to_dict, json.dump, json.load, from_dict
\* ------------------------------------------------------------------------
S_BTCC == <<"B","T","C","C">>

\* the clock of this run, in microseconds
RT_Times == {0, 500, 1000000, 61000500}

\* token ids that an alert can record
RT_TokenIds == {"shiba", "dogeclone"}

RT_Off ==
    /\ rt_kind = "price_alert"
    /\ rt_entity = None
    /\ rt_n = 0
    /\ rt_pc = "off"
    /\ rt_data = None
    /\ rt_file = None
    /\ rt_rebuilt = None

\* an entity as its __init__ leaves it
RT_Init ==
    /\ \E now \in RT_Times :
          \/ /\ rt_kind = "price_alert"
             /\ \E exchange \in {S_btcc, S_BTCC}, condition \in {S_above, S_Above} :
                   rt_entity = PriceAlert(1, S_BTCUSDT, exchange, 50000,
                                          condition, now)
          \/ /\ rt_kind = "sniper_alert"
             /\ \E a \in SniperAlertInputs, chains \in {None, Some(<<S_solana>>)} :
                   rt_entity = MemeSniperAlert(1, None, Some(10), a.max_market_cap,
                                               chains, a.keywords, None,
                                               a.auto_buy, a.auto_buy_amount, now)
          \/ /\ rt_kind = "token"
             /\ \E chain \in TokenChains, price \in {None, Some(5)} :
                   rt_entity = MemeToken("shiba", S_SHIB, S_Shiba, chain, price,
                                         None, None, None, now)
    /\ rt_n = 0
    /\ rt_pc = "entity"
    /\ rt_data = None
    /\ rt_file = None
    /\ rt_rebuilt = None

\* the calls that change an entity after __init__: a check cycle sets
\* alert.triggered, mark_token_triggered records a token id, update_price
\* appends to the histories
RT_Change ==
    /\ rt_pc = "entity"
    /\ rt_n < MaxChanges
    /\ \/ /\ rt_kind = "price_alert"
          /\ ~rt_entity.triggered
          /\ rt_entity' = [rt_entity EXCEPT !.triggered = TRUE]
       \/ /\ rt_kind = "sniper_alert"
          /\ \E token_id \in RT_TokenIds :
                /\ token_id \notin Range(rt_entity.triggered_tokens)
                /\ rt_entity' = mark_token_triggered(rt_entity, token_id)
       \/ /\ rt_kind = "token"
          /\ \E now \in RT_Times, volume \in {None, Some(7)} :
                /\ now >= rt_entity.last_updated
                /\ rt_entity' = update_price(rt_entity, rt_n + 1, None, volume,
                                             None, now)
    /\ rt_n' = rt_n + 1
    /\ UNCHANGED <<rt_kind, rt_pc, rt_data, rt_file, rt_rebuilt>>
    /\ UNCHANGED RT_Others

\* entity.to_dict()
RT_ToDict ==
    /\ rt_pc = "entity"
    /\ rt_data' = Some(to_dict(rt_kind, rt_entity))
    /\ rt_pc' = "dict"
    /\ UNCHANGED <<rt_kind, rt_entity, rt_n, rt_file, rt_rebuilt>>
    /\ UNCHANGED RT_Others

\* json.dump(data, f)
RT_Dump ==
    /\ rt_pc = "dict"
    /\ rt_file' = Some(json_dump(rt_kind, Val(rt_data)))
    /\ rt_data' = None
    /\ rt_pc' = "file"
    /\ UNCHANGED <<rt_kind, rt_entity, rt_n, rt_rebuilt>>
    /\ UNCHANGED RT_Others

\* data = json.load(f)
RT_Load ==
    /\ rt_pc = "file"
    /\ rt_data' = Some(json_load(rt_kind, Val(rt_file)))
    /\ rt_pc' = "loaded"
    /\ UNCHANGED <<rt_kind, rt_entity, rt_n, rt_file, rt_rebuilt>>
    /\ UNCHANGED RT_Others

\* cls.from_dict(data), of the dictionary of to_dict or of json.load, at
\* the time of the serialisation or later
RT_FromDict ==
    /\ rt_pc \in {"dict", "loaded"}
    /\ \E now \in RT_Times :
          rt_rebuilt' = Some(from_dict(rt_kind, Val(rt_data), now))
    /\ rt_pc' = "rebuilt"
    /\ UNCHANGED <<rt_kind, rt_entity, rt_n, rt_data, rt_file>>
    /\ UNCHANGED RT_Others

RT_Next ==
    \/ RT_Change
    \/ RT_ToDict
    \/ RT_Dump
    \/ RT_Load
    \/ RT_FromDict

\* ------------------------------------------------------------------------
\* Strategies built from a params dictionary; their to_dict / from_dict
\* ------------------------------------------------------------------------
S_1h == <<"1","h">>

StrategyTypes == {"sma_crossover", "ema_crossover", "rsi", "bollinger_bands", "custom"}

\* required_params of the __init__ of each subclass
RequiredParams(strategy_type) ==
    CASE strategy_type \in {"sma_crossover", "ema_crossover"} ->
             <<"short_period", "long_period", "timeframe">>
      [] strategy_type = "rsi" -> <<"period", "timeframe">>
      [] strategy_type = "bollinger_bands" -> <<"period", "std_dev", "timeframe">>
      [] OTHER -> <<>>

\* "if param not in params: raise ValueError"
MissingParam(strategy_type, params) ==
    \E i \in 1..Len(RequiredParams(strategy_type)) :
        ~DictHas(params, RequiredParams(strategy_type)[i])

\* params.get(key, default)
GetOr(params, key, default) ==
    IF DictHas(params, key) THEN DictGet(params, key) ELSE default

\* the __init__ of the class of strategy_type, given a params dictionary
\* that has the required keys
NewStrategy(name, strategy_type, params) ==
    [params |-> params, last_update |-> None] @@
    (CASE strategy_type = "sma_crossover" ->
              SMAStrategy(name, DictGet(params, "short_period"),
                          DictGet(params, "long_period"))
       [] strategy_type = "ema_crossover" ->
              EMAStrategy(name, DictGet(params, "short_period"),
                          DictGet(params, "long_period"))
       [] strategy_type = "rsi" ->
              [RSIStrategy(name, DictGet(params, "period"))
                  EXCEPT !.overbought = GetOr(params, "overbought", 70),
                         !.oversold = GetOr(params, "oversold", 30)]
       [] strategy_type = "bollinger_bands" ->
              BollingerBandsStrategy(name, DictGet(params, "period"),
                                     DictGet(params, "std_dev"))
       [] OTHER -> Strategy(name, strategy_type))

\* Strategy.to_dict
Strategy_to_dict(strategy) ==
    [name          |-> strategy.name,
     strategy_type |-> strategy.strategy_type,
     params        |-> strategy.params,
     last_signal   |-> strategy.last_signal,
     last_update   |-> IF IsNone(strategy.last_update) THEN None
                       ELSE Some(isoformat(Val(strategy.last_update)))]

\* StrategyType(value) / TradingSignal(value) raise ValueError for a value
\* that is not a member; a missing key raises KeyError
StrategyDataRaises(data) ==
    \/ data.strategy_type \notin StrategyTypes
    \/ MissingParam(data.strategy_type, data.params)
    \/ data.last_signal \notin {BUY, SELL, HOLD}

\* Strategy.from_dict of data for which it does not raise
Strategy_from_dict(data) ==
    [NewStrategy(data.name, data.strategy_type, data.params)
        EXCEPT !.last_signal = data.last_signal,
               !.last_update = IF IsNone(data.last_update) THEN @
                               ELSE Some(fromisoformat(Val(data.last_update)))]

\* json.dump / json.load of a params dictionary: 'timeframe' is a str, the
\* other values are numbers
JsonParams(params) ==
    [i \in 1..Len(params) |->
        <<params[i][1], IF params[i][1] = "timeframe" THEN JsonStr(params[i][2])
                        ELSE JsonNum(params[i][2])>>]

ParseJsonParams(texts) ==
    [i \in 1..Len(texts) |->
        <<texts[i][1], IF texts[i][1] = "timeframe" THEN ParseJsonStr(texts[i][2])
                       ELSE ParseJsonNum(texts[i][2])>>]

\* json.dump of the dictionary of a strategy
Strategy_dump(data) ==
    [name          |-> JsonId(data.name),
     strategy_type |-> JsonId(data.strategy_type),
     params        |-> JsonParams(data.params),
     last_signal   |-> JsonId(data.last_signal),
     last_update   |-> JsonOptStr(data.last_update)]

\* json.load of the text of a strategy
Strategy_load(text) ==
    [name          |-> ParseJsonId(text.name),
     strategy_type |-> ParseJsonId(text.strategy_type),
     params        |-> ParseJsonParams(text.params),
     last_signal   |-> ParseJsonId(text.last_signal),
     last_update   |-> ParseJsonOptStr(text.last_update)]

\* ------------------------------------------------------------------------
\* save_alerts / load_alerts, save_data / load_data,
\* save_strategies / load_strategies
\* ------------------------------------------------------------------------
Managers == {"alerts", "sniper", "strategies"}

\* A file is None (it does not exist) or holds a text: one that json.load
\* parses into entries <<id, text of the entity>>, or one that it rejects.
FileOf(entries) == [parsable |-> TRUE, entries |-> entries]

\* a file whose text json.load cannot parse (cut short, edited by hand)
Garbage == [parsable |-> FALSE, entries |-> <<>>]

\* an entry that json.load parses but from_dict rejects with a KeyError
\* (a key is missing); the text of a sound entry is Some(text)
BrokenEntry == None

\* the class of the entities of a manager's alerts / strategies registry
ItemKind(manager) ==
    CASE manager = "alerts" -> "price_alert"
      [] manager = "sniper" -> "sniper_alert"
      [] manager = "strategies" -> "strategy"

\* {id: entity.to_dict() ...} written by json.dump: the text of every entry
DumpAll(kind, registry) ==
    [i \in 1..Len(registry) |->
        <<registry[i][1],
          Some(IF kind = "strategy"
               THEN Strategy_dump(Strategy_to_dict(registry[i][2]))
               ELSE json_dump(kind, to_dict(kind, registry[i][2])))>>]

\* json.load raises, or from_dict raises for one of the entries
LoadRaises(kind, file) ==
    \/ ~Val(file).parsable
    \/ \E i \in 1..Len(Val(file).entries) :
          \/ Val(file).entries[i][2] = BrokenEntry
          \/ /\ kind = "strategy"
             /\ StrategyDataRaises(Strategy_load(Val(Val(file).entries[i][2])))

\* {id: cls.from_dict(data) for id, data in json.load(f).items()}
LoadAll(kind, file, now) ==
    [i \in 1..Len(Val(file).entries) |->
        <<Val(file).entries[i][1],
          IF kind = "strategy"
          THEN Strategy_from_dict(Strategy_load(Val(Val(file).entries[i][2])))
          ELSE from_dict(kind, json_load(kind, Val(Val(file).entries[i][2])), now)>>]

\* what writing a file can come to: "ok"; open() raises and the file is as
\* before; json.dump raises after open() has emptied the file
WriteOutcomes == {"ok", "open_raises", "dump_raises"}

FileAfterWrite(file, outcome, text) ==
    CASE outcome = "ok" -> Some(FileOf(text))
      [] outcome = "open_raises" -> file
      [] outcome = "dump_raises" -> Some(Garbage)

\* the entities that the command layer can add
PS_Times == {0, 500}

PS_NewItems(manager) ==
    CASE manager = "alerts" ->
             {PriceAlert(1, S_BTCUSDT, S_btcc, 50000, S_above, now) : now \in PS_Times}
      [] manager = "sniper" ->
             {MemeSniperAlert(1, None, None, Some(1000000), None, None, None,
                              FALSE, None, now) : now \in PS_Times}
      [] manager = "strategies" ->
             {NewStrategy("s1", "sma_crossover",
                          <<<<"short_period", 3>>, <<"long_period", 5>>,
                            <<"timeframe", S_1h>>>>),
              NewStrategy("s2", "rsi", <<<<"period", 2>>, <<"timeframe", S_1h>>>>)}

ItemId(manager, item) ==
    IF manager = "strategies" THEN item.name ELSE item.alert_id

PS_NewTokens ==
    {MemeToken("shiba", S_SHIB, S_Shiba, None, Some(5), None, None, None, 0),
     MemeToken("dogeclone", S_DGC, S_Dogeclone, Some(S_bsc), None, None, None,
               None, 500)}

PS_Off ==
    /\ ps_manager = "alerts"
    /\ ps_tokens = <<>>
    /\ ps_items = <<>>
    /\ ps_tokens_file = None
    /\ ps_items_file = None
    /\ ps_n = 0
    /\ ps_last = None

\* a manager after __init__, and no file yet
PS_Init ==
    /\ ps_manager \in Managers
    /\ ps_tokens = <<>>
    /\ ps_items = <<>>
    /\ ps_tokens_file = None
    /\ ps_items_file = None
    /\ ps_n = 0
    /\ ps_last = None

\* add_alert / add_strategy, or a token inserted by the monitoring cycle
PS_Add ==
    /\ ps_n < MaxCalls
    /\ \/ /\ \E item \in PS_NewItems(ps_manager) :
                ps_items' = DictSet(ps_items, ItemId(ps_manager, item), item)
          /\ UNCHANGED ps_tokens
       \/ /\ ps_manager = "sniper"
          /\ \E token \in PS_NewTokens :
                /\ ~DictHas(ps_tokens, token.token_id)
                /\ ps_tokens' = DictSet(ps_tokens, token.token_id, token)
          /\ UNCHANGED ps_items
    /\ ps_n' = ps_n + 1
    /\ UNCHANGED <<ps_manager, ps_tokens_file, ps_items_file, ps_last>>
    /\ UNCHANGED PS_Others

\* an entry after it has lost a key: the first parameter of a strategy,
\* a key of the entity otherwise
DamagedEntry(kind, text) ==
    IF kind = "strategy" /\ text # BrokenEntry
    THEN Some([Val(text) EXCEPT !.params = Tail(@)])
    ELSE BrokenEntry

\* something other than the program changes a file: it is cut short, or an
\* entry loses a key
PS_Damage ==
    /\ ps_n < MaxCalls
    /\ \/ /\ ps_manager = "sniper"
          /\ ~IsNone(ps_tokens_file)
          /\ ps_tokens_file' = Some(Garbage)
          /\ UNCHANGED ps_items_file
       \/ /\ ~IsNone(ps_items_file)
          /\ \/ ps_items_file' = Some(Garbage)
             \/ \E i \in 1..Len(Val(ps_items_file).entries) :
                   ps_items_file' =
                       Some([Val(ps_items_file) EXCEPT !.entries[i][2] =
                                DamagedEntry(ItemKind(ps_manager), @)])
          /\ UNCHANGED ps_tokens_file
    /\ ps_n' = ps_n + 1
    /\ UNCHANGED <<ps_manager, ps_tokens, ps_items, ps_last>>
    /\ UNCHANGED PS_Others

\* save_alerts / save_strategies: one file; save_data: the tokens file,
\* then the alerts file, the first exception ending the call
PS_Save ==
    /\ ps_n < MaxCalls
    /\ \E first \in WriteOutcomes, second \in WriteOutcomes :
          LET items_text == DumpAll(ItemKind(ps_manager), ps_items)
              tokens_text == DumpAll("token", ps_tokens)
          IN IF ps_manager = "sniper"
             THEN /\ ps_tokens_file' = FileAfterWrite(ps_tokens_file, first, tokens_text)
                  /\ ps_items_file' = IF first = "ok"
                                      THEN FileAfterWrite(ps_items_file, second, items_text)
                                      ELSE ps_items_file
                  /\ ps_last' = Some([n |-> ps_n + 1, op |-> "save",
                                      result |-> first = "ok" /\ second = "ok",
                                      tokens |-> ps_tokens, items |-> ps_items])
             ELSE /\ first = second
                  /\ ps_items_file' = FileAfterWrite(ps_items_file, first, items_text)
                  /\ ps_tokens_file' = ps_tokens_file
                  /\ ps_last' = Some([n |-> ps_n + 1, op |-> "save", result |-> first = "ok",
                                      tokens |-> ps_tokens, items |-> ps_items])
    /\ ps_n' = ps_n + 1
    /\ UNCHANGED <<ps_manager, ps_tokens, ps_items>>
    /\ UNCHANGED PS_Others

\* load_data, first half: self.tokens after the tokens file has been read
TokensAfterLoad(tokens, file, now) ==
    IF IsNone(file) \/ LoadRaises("token", file) THEN tokens
    ELSE LoadAll("token", file, now)

\* load_alerts / load_strategies: False for a missing file and for any
\* exception; load_data: each file that exists is read, False if reading
\* either raised
PS_Load ==
    /\ ps_n < MaxCalls
    /\ \E now \in PS_Times :
          LET kind == ItemKind(ps_manager)
              items_ok == ~IsNone(ps_items_file) /\ ~LoadRaises(kind, ps_items_file)
              tokens_failed == ~IsNone(ps_tokens_file) /\ LoadRaises("token", ps_tokens_file)
              items_failed == ~IsNone(ps_items_file) /\ LoadRaises(kind, ps_items_file)
          IN /\ ps_items' = IF items_ok THEN LoadAll(kind, ps_items_file, now)
                            ELSE ps_items
             /\ ps_tokens' = IF ps_manager = "sniper"
                             THEN TokensAfterLoad(ps_tokens, ps_tokens_file, now)
                             ELSE ps_tokens
             /\ ps_last' = Some([n |-> ps_n + 1, op |-> "load",
                                 result |-> IF ps_manager = "sniper"
                                            THEN ~tokens_failed /\ ~items_failed
                                            ELSE items_ok,
                                 tokens |-> ps_tokens, items |-> ps_items])
    /\ ps_n' = ps_n + 1
    /\ UNCHANGED <<ps_manager, ps_tokens_file, ps_items_file>>
    /\ UNCHANGED PS_Others

PS_Next ==
    \/ PS_Add
    \/ PS_Damage
    \/ PS_Save
    \/ PS_Load

\* ------------------------------------------------------------------------
\* Commands that change a registry: add_alert, remove_alert, the creation
\* of a strategy, remove_strategy, schedule_task
\* ------------------------------------------------------------------------
RJ_Targets == {"alerts", "strategies", "scheduler"}

\* a plausible slip: "del" without the membership test; removing an id
\* that is not registered removes the entry added last
remove_entry_blind(registry, id) ==
    IF DictHas(registry, id) THEN DictDel(registry, id)
    ELSE SubSeq(registry, 1, Len(registry) - 1)

\* remove_alert / remove_strategy: "if id in registry: del registry[id]"
remove_entry(registry, id) ==
    IF DictHas(registry, id) THEN DictDel(registry, id) ELSE registry

S_1_5m == <<"1",".","5","m">>

S_empty == <<>>

\* the alerts the command layer creates, and the ids it asks to remove
RJ_NewAlerts == {PriceAlert(1, S_BTCUSDT, S_btcc, 50000, S_above, now) : now \in Times}

RJ_AlertIds == {a.alert_id : a \in RJ_NewAlerts} \cup {S_doge}

P_short == <<"short_period", 3>>

P_long == <<"long_period", 5>>

P_period == <<"period", 2>>

P_std_dev == <<"std_dev", 2>>

P_timeframe == <<"timeframe", S_1h>>

P_oversold == <<"oversold", 20>>

\* <<name, strategy type, params>> of the constructor calls
RJ_NewStrategies ==
    {<<"s1", "sma_crossover", <<P_short, P_long, P_timeframe>>>>,
     <<"s1", "sma_crossover", <<P_long, P_timeframe>>>>,
     <<"s1", "sma_crossover", <<P_short, P_timeframe>>>>,
     <<"s1", "sma_crossover", <<P_short, P_long>>>>,
     <<"s2", "ema_crossover", <<P_short, P_long, P_timeframe>>>>,
     <<"s2", "ema_crossover", <<P_timeframe>>>>,
     <<"s1", "rsi", <<P_period, P_oversold, P_timeframe>>>>,
     <<"s1", "rsi", <<P_timeframe>>>>,
     <<"s1", "rsi", <<P_period>>>>,
     <<"s2", "bollinger_bands", <<P_period, P_std_dev, P_timeframe>>>>,
     <<"s2", "bollinger_bands", <<P_period, P_timeframe>>>>,
     <<"s2", "bollinger_bands", <<P_std_dev, P_timeframe>>>>,
     <<"s2", "bollinger_bands", <<P_period, P_std_dev>>>>}

RJ_StrategyNames == {"s1", "s2", "s3"}

\* <<task id, interval>> of the schedule_task calls
RJ_ScheduleInputs ==
    {<<"strategy_a", S_1m>>, <<"strategy_b", S_1H>>, <<"strategy_a", S_1x>>,
     <<"strategy_a", S_m>>, <<"strategy_a", S_empty>>, <<"strategy_b", S_1_5m>>}

RJ_Off ==
    /\ rj_target = "alerts"
    /\ rj_alerts = <<>>
    /\ rj_strategies = <<>>
    /\ rj_jobs = <<>>
    /\ rj_n = 0
    /\ rj_last = None

\* the managers after __init__
RJ_Init ==
    /\ rj_target \in RJ_Targets
    /\ rj_alerts = <<>>
    /\ rj_strategies = <<>>
    /\ rj_jobs = <<>>
    /\ rj_n = 0
    /\ rj_last = None

\* PriceAlertManager.add_alert
RJ_AddAlert ==
    /\ rj_target = "alerts"
    /\ rj_n < MaxCalls
    /\ \E alert \in RJ_NewAlerts :
          /\ rj_alerts' = DictSet(rj_alerts, alert.alert_id, alert)
          /\ rj_last' = Some([n |-> rj_n + 1, op |-> "add_alert",
                              arg |-> alert.alert_id, result |-> "true"])
    /\ rj_n' = rj_n + 1
    /\ UNCHANGED <<rj_target, rj_strategies, rj_jobs>>
    /\ UNCHANGED RJ_Others

\* PriceAlertManager.remove_alert
RJ_RemoveAlert ==
    /\ rj_target = "alerts"
    /\ rj_n < MaxCalls
    /\ \E alert_id \in RJ_AlertIds :
          /\ rj_alerts' = remove_entry(rj_alerts, alert_id)
          /\ rj_last' = Some([n |-> rj_n + 1, op |-> "remove_alert",
                              arg |-> alert_id,
                              result |-> IF DictHas(rj_alerts, alert_id)
                                         THEN "true" ELSE "false"])
    /\ rj_n' = rj_n + 1
    /\ UNCHANGED <<rj_target, rj_strategies, rj_jobs>>
    /\ UNCHANGED RJ_Others

\* the command layer creates a strategy and, unless the constructor has
\* raised, hands it to StrategyManager.add_strategy
RJ_NewStrategy ==
    /\ rj_target = "strategies"
    /\ rj_n < MaxCalls
    /\ \E input \in RJ_NewStrategies :
          LET name == input[1]
              strategy_type == input[2]
              params == input[3]
          IN IF MissingParam(strategy_type, params)
             THEN /\ rj_strategies' = rj_strategies
                  /\ rj_last' = Some([n |-> rj_n + 1, op |-> "new_strategy",
                                      arg |-> <<strategy_type, params>>,
                                      result |-> "raised"])
             ELSE /\ rj_strategies' =
                         DictSet(rj_strategies, name,
                                 NewStrategy(name, strategy_type, params))
                  /\ rj_last' = Some([n |-> rj_n + 1, op |-> "new_strategy",
                                      arg |-> <<strategy_type, params>>,
                                      result |-> "true"])
    /\ rj_n' = rj_n + 1
    /\ UNCHANGED <<rj_target, rj_alerts, rj_jobs>>
    /\ UNCHANGED RJ_Others

\* StrategyManager.remove_strategy
RJ_RemoveStrategy ==
    /\ rj_target = "strategies"
    /\ rj_n < MaxCalls
    /\ \E strategy_name \in RJ_StrategyNames :
          /\ rj_strategies' = remove_entry(rj_strategies, strategy_name)
          /\ rj_last' = Some([n |-> rj_n + 1, op |-> "remove_strategy",
                              arg |-> strategy_name,
                              result |-> IF DictHas(rj_strategies, strategy_name)
                                         THEN "true" ELSE "false"])
    /\ rj_n' = rj_n + 1
    /\ UNCHANGED <<rj_target, rj_alerts, rj_jobs>>
    /\ UNCHANGED RJ_Others

\* TaskScheduler.schedule_task
RJ_Schedule ==
    /\ rj_target = "scheduler"
    /\ rj_n < MaxCalls
    /\ \E input \in RJ_ScheduleInputs :
          LET task_id == input[1]
              interval == input[2]
              period == IntervalPeriod(interval)
          IN /\ rj_jobs' = IF IsNone(period) THEN rj_jobs
                           ELSE Append(rj_jobs, NewJob(task_id, Val(period), 0))
             /\ rj_last' = Some([n |-> rj_n + 1, op |-> "schedule_task",
                                 arg |-> interval,
                                 result |-> IF IsNone(period) THEN "false"
                                            ELSE "true"])
    /\ rj_n' = rj_n + 1
    /\ UNCHANGED <<rj_target, rj_alerts, rj_strategies>>
    /\ UNCHANGED RJ_Others

RJ_Next ==
    \/ RJ_AddAlert
    \/ RJ_RemoveAlert
    \/ RJ_NewStrategy
    \/ RJ_RemoveStrategy
    \/ RJ_Schedule

\* ------------------------------------------------------------------------
\* The registry lock: which steps of a cycle run inside "with self.lock"
\* ------------------------------------------------------------------------
\* A cycle is a walk through numbered steps.  A step is a block inside
\* "with self.lock" (locked), or a call that leaves the process (io): a
\* network request or a callback; next holds the steps that can follow
\* (0: the cycle is over), by normal return, by "continue" or by an
\* exception caught further out.
Step(name, locked, io, next) ==
    [name |-> name, locked |-> locked, io |-> io, next |-> next]

\* PriceAlertManager._check_alerts
AlertSteps ==
    <<Step("snapshot", TRUE, FALSE, {0, 2}),
      Step("get_ticker", FALSE, TRUE, {0, 2, 3}),
      Step("evaluate", TRUE, FALSE, {0, 2, 4}),
      Step("notification_callback", FALSE, TRUE, {0, 2, 4})>>

\* MemeSniper._update_token_data and _check_alerts
SniperSteps ==
    <<Step("fetch_new_listings", FALSE, TRUE, {2}),
      Step("token_ids", TRUE, FALSE, {3, 5, 6}),
      Step("fetch_batch", FALSE, TRUE, {3, 4, 5, 6}),
      Step("update_batch", TRUE, FALSE, {3, 5, 6}),
      Step("add_token", TRUE, FALSE, {5, 6}),
      Step("check_alerts", TRUE, FALSE, {0, 7}),
      Step("notification_callback", FALSE, TRUE, {0, 7, 8}),
      Step("buy_callback", FALSE, TRUE, {0, 7})>>

\* StrategyManager.execute_strategy
StrategySteps ==
    <<Step("get_strategy", TRUE, FALSE, {0, 2}),
      Step("analyze", FALSE, TRUE, {0, 3}),
      Step("order_callback", FALSE, TRUE, {0})>>

StepsOf(manager) ==
    CASE manager = "alerts" -> AlertSteps
      [] manager = "sniper" -> SniperSteps
      [] manager = "strategies" -> StrategySteps

\* a plausible slip: the whole cycle runs inside "with self.lock"
HoldsLock_always(step) == TRUE

\* the thread holds self.lock while it is inside the step
HoldsLock(step) == step.locked

\* add_alert / add_strategy, remove_alert / remove_strategy, get_alert /
\* get_strategy, get_alerts_for_user / get_strategies_for_symbol: each is
\* one "with self.lock" block
Commands == {"add", "remove", "get", "list"}

LK_Off ==
    /\ lk_manager = "alerts"
    /\ lk_step = 0
    /\ lk_in = FALSE
    /\ lk_lock = None
    /\ lk_cmd = "idle"
    /\ lk_cycles = 0

\* a manager after __init__: the lock is free
LK_Init ==
    /\ lk_manager \in Managers
    /\ lk_step = 0
    /\ lk_in = FALSE
    /\ lk_lock = None
    /\ lk_cmd = "idle"
    /\ lk_cycles = 0

\* the loop thread begins a cycle
LK_Begin ==
    /\ lk_step = 0
    /\ lk_cycles < MaxCycles
    /\ lk_step' = 1
    /\ UNCHANGED <<lk_manager, lk_in, lk_lock, lk_cmd, lk_cycles>>
    /\ UNCHANGED LK_Others

\* the thread enters the step it is at; a locked step waits for the lock
LK_Enter ==
    /\ lk_step # 0
    /\ ~lk_in
    /\ IF HoldsLock(StepsOf(lk_manager)[lk_step])
       THEN /\ IsNone(lk_lock)
            /\ lk_lock' = Some("monitor")
       ELSE lk_lock' = lk_lock
    /\ lk_in' = TRUE
    /\ UNCHANGED <<lk_manager, lk_step, lk_cmd, lk_cycles>>
    /\ UNCHANGED LK_Others

\* the thread leaves the step: the block ends and releases the lock, or the
\* call returns or raises (a call may also never return)
LK_Leave ==
    /\ lk_step # 0
    /\ lk_in
    /\ \E n \in StepsOf(lk_manager)[lk_step].next :
          /\ lk_step' = n
          /\ lk_cycles' = IF n = 0 THEN lk_cycles + 1 ELSE lk_cycles
    /\ lk_in' = FALSE
    /\ lk_lock' = IF lk_lock = Some("monitor") THEN None ELSE lk_lock
    /\ UNCHANGED <<lk_manager, lk_cmd>>
    /\ UNCHANGED LK_Others

\* a command of the command layer takes the lock
LK_CmdEnter ==
    /\ lk_cmd = "idle"
    /\ IsNone(lk_lock)
    /\ \E c \in Commands : lk_cmd' = c
    /\ lk_lock' = Some("command")
    /\ UNCHANGED <<lk_manager, lk_step, lk_in, lk_cycles>>
    /\ UNCHANGED LK_Others

\* the command returns and releases the lock
LK_CmdLeave ==
    /\ lk_cmd # "idle"
    /\ lk_cmd' = "idle"
    /\ lk_lock' = None
    /\ UNCHANGED <<lk_manager, lk_step, lk_in, lk_cycles>>
    /\ UNCHANGED LK_Others

LK_Next ==
    \/ LK_Begin
    \/ LK_Enter
    \/ LK_Leave
    \/ LK_CmdEnter
    \/ LK_CmdLeave

\* ------------------------------------------------------------------------
\* MemeSniper.get_trending_tokens and get_new_listings
\* ------------------------------------------------------------------------
\* timedelta(days=1), in minutes
MinutesPerDay == 1440

\* "x or 0" for an Optional change <<numerator, denominator>>
ChangeOrZero(change) == IF IsNone(change) THEN <<0, 1>> ELSE Val(change)

\* get_trending_tokens: ten times the score, as a fraction with a positive
\* denominator: 4 * price_change_1h + 3 * price_change_24h + 3 * volume_change
TrendingScore(token, now) ==
    LET price_change_24h == IF IsNone(token.price_change_24h) THEN 0
                            ELSE Val(token.price_change_24h)
        price_change_1h  == ChangeOrZero(calculate_price_change(token, 60, now))
        volume_change    == ChangeOrZero(calculate_volume_change(token, 60, now))
        num == 4 * price_change_1h[1] * volume_change[2]
                  + 3 * price_change_24h * price_change_1h[2] * volume_change[2]
                  + 3 * volume_change[1] * price_change_1h[2]
        den == price_change_1h[2] * volume_change[2]
    IN IF den < 0 THEN <<0 - num, 0 - den>> ELSE <<num, den>>

\* a plausible slip: the sort is ascending
InsertDescending_ascending(sorted, pair) ==
    LET before == SelectSeq(sorted, LAMBDA p : FracLE(p[2], pair[2]))
        after  == SelectSeq(sorted, LAMBDA p : ~FracLE(p[2], pair[2]))
    IN before \o <<pair>> \o after

\* list.sort(key, reverse=True) is stable: a pair goes behind the pairs whose
\* key is greater or equal
InsertDescending(sorted, pair) ==
    LET before == SelectSeq(sorted, LAMBDA p : FracLE(pair[2], p[2]))
        after  == SelectSeq(sorted, LAMBDA p : ~FracLE(pair[2], p[2]))
    IN before \o <<pair>> \o after

RECURSIVE SortDescending(_, _)
\* list.sort(key=..., reverse=True) on <<item, key>> pairs
SortDescending(pairs, sorted) ==
    IF pairs = <<>> THEN sorted
    ELSE SortDescending(Tail(pairs), InsertDescending(sorted, Head(pairs)))

\* list[:limit]
UpTo(list, limit) ==
    IF limit >= 0
    THEN SubSeq(list, 1, IF limit < Len(list) THEN limit ELSE Len(list))
    ELSE SubSeq(list, 1, IF Len(list) + limit > 0 THEN Len(list) + limit ELSE 0)

\* MemeSniper.get_trending_tokens
get_trending_tokens(tokens, limit, now) ==
    LET scored_tokens == [i \in 1..Len(tokens) |->
                             <<tokens[i][2], TrendingScore(tokens[i][2], now)>>]
        sorted == SortDescending(scored_tokens, <<>>)
    IN UpTo([i \in 1..Len(sorted) |-> sorted[i][1]], limit)

\* MemeSniper.get_new_listings
get_new_listings(tokens, days, limit, now) ==
    LET cutoff_date == now - days * MinutesPerDay
        values      == [i \in 1..Len(tokens) |->
                           <<tokens[i][2], <<tokens[i][2].created_at, 1>>>>]
        new_tokens  == SelectSeq(values, LAMBDA p : p[1].created_at >= cutoff_date)
        sorted      == SortDescending(new_tokens, <<>>)
    IN UpTo([i \in 1..Len(sorted) |-> sorted[i][1]], limit)

\* the ids of the tokens the source may list
ViewTokenIds == <<"shiba", "dogeclone", "moon", "pepe">>

\* the histories a token may have: (1) listed long ago and never updated,
\* (2) rising price and volume, (3) just listed with a 24 h change, (4)
\* falling price, (5) created exactly seven days before the first clock
\* value, with a sample exactly sixty minutes before it
ViewProfiles == 1..5

ViewToken(id, k) ==
    CASE k = 1 -> MemeToken(id, S_SHIB, S_Shiba, None, Some(1), None, None, None, 0)
      [] k = 2 -> update_price(
                      update_price(MemeToken(id, S_SHIB, S_Shiba, None, Some(1),
                                             None, None, None, 15000),
                                   1, None, Some(10), None, 19000),
                      2, None, Some(30), None, 19990)
      [] k = 3 -> update_price(MemeToken(id, S_SHIB, S_Shiba, None, Some(5), None,
                                         None, None, 19999),
                               5, None, None, Some(50), 19999)
      [] k = 4 -> update_price(
                      update_price(MemeToken(id, S_SHIB, S_Shiba, None, Some(2),
                                             None, None, None, 10000),
                                   2, None, None, None, 19000),
                      1, None, None, Some(0 - 10), 19990)
      [] k = 5 -> update_price(
                      update_price(
                          update_price(MemeToken(id, S_SHIB, S_Shiba, None, Some(4),
                                                 None, None, None, 9920),
                                       4, None, Some(10), None, 19000),
                          5, None, Some(10), None, 19940),
                      6, None, Some(20), None, 19990)

ViewClock == {20000, 20001}

ViewLimits == {0, 1, 2, 10}

ViewDays == {0, 7}

VW_Off ==
    /\ vw_tokens = <<>>
    /\ vw_now = 0
    /\ vw_last = None

\* any token map of at most MaxViewTokens tokens
VW_Init ==
    /\ \E n \in 0..MaxViewTokens, ks \in [1..MaxViewTokens -> ViewProfiles] :
          vw_tokens = [i \in 1..n |-> <<ViewTokenIds[i], ViewToken(ViewTokenIds[i], ks[i])>>]
    /\ vw_now = 20000
    /\ vw_last = None

\* meme_sniper.get_trending_tokens(limit)
VW_Trending ==
    /\ \E limit \in ViewLimits :
          vw_last' = Some([op |-> "trending", limit |-> limit, days |-> 0,
                           result |-> get_trending_tokens(vw_tokens, limit, vw_now)])
    /\ UNCHANGED <<vw_tokens, vw_now>>
    /\ UNCHANGED VW_Others

\* meme_sniper.get_new_listings(days, limit)
VW_NewListings ==
    /\ \E days \in ViewDays, limit \in ViewLimits :
          vw_last' = Some([op |-> "new", limit |-> limit, days |-> days,
                           result |-> get_new_listings(vw_tokens, days, limit, vw_now)])
    /\ UNCHANGED <<vw_tokens, vw_now>>
    /\ UNCHANGED VW_Others

\* time passes
VW_Tick ==
    /\ \E t \in ViewClock : t > vw_now /\ vw_now' = t
    /\ vw_last' = None
    /\ UNCHANGED vw_tokens
    /\ UNCHANGED VW_Others

VW_Next ==
    \/ VW_Trending
    \/ VW_NewListings
    \/ VW_Tick

\* ------------------------------------------------------------------------
\* The bot process: main() loads the alerts file and starts monitoring, the
\* command handlers save after a change, the check cycle fires alerts
\* ------------------------------------------------------------------------
RS_Conditions == {S_above, S_below}

RS_Prices == {49000, 51000}

RS_Off ==
    /\ rs_up = FALSE
    /\ rs_alerts = <<>>
    /\ rs_file = None
    /\ rs_fired = {}
    /\ rs_n = 0
    /\ rs_restarts = 0

\* no process yet and no alerts file
RS_Init ==
    /\ rs_up = FALSE
    /\ rs_alerts = <<>>
    /\ rs_file = None
    /\ rs_fired = {}
    /\ rs_n = 0
    /\ rs_restarts = 0

\* main(): the manager is created with no alerts, load_alerts(ALERTS_FILE)
\* reads the file if there is one, start_monitoring() follows
RS_Main ==
    /\ ~rs_up
    /\ rs_restarts < MaxRestarts
    /\ \E now \in PS_Times :
          rs_alerts' = IF IsNone(rs_file) \/ LoadRaises("price_alert", rs_file)
                       THEN <<>>
                       ELSE LoadAll("price_alert", rs_file, now)
    /\ rs_up' = TRUE
    /\ rs_restarts' = rs_restarts + 1
    /\ UNCHANGED <<rs_file, rs_fired, rs_n>>
    /\ UNCHANGED RS_Others

\* the process ends (it is stopped or killed); nothing is saved on the way out
RS_Exit ==
    /\ rs_up
    /\ rs_up' = FALSE
    /\ rs_alerts' = <<>>
    /\ UNCHANGED <<rs_file, rs_fired, rs_n, rs_restarts>>
    /\ UNCHANGED RS_Others

\* set_alert_command: PriceAlert(...), add_alert(alert), save_alerts(ALERTS_FILE)
RS_SetAlert ==
    /\ rs_up
    /\ rs_n < MaxCalls
    /\ \E condition \in RS_Conditions, now \in PS_Times, outcome \in WriteOutcomes :
          LET alert  == PriceAlert(1, S_BTCUSDT, S_btcc, 50000, condition, now)
              alerts == DictSet(rs_alerts, alert.alert_id, alert)
          IN /\ rs_alerts' = alerts
             /\ rs_file' = FileAfterWrite(rs_file, outcome,
                                          DumpAll("price_alert", alerts))
             /\ rs_fired' = rs_fired \ {alert.alert_id}
    /\ rs_n' = rs_n + 1
    /\ UNCHANGED <<rs_up, rs_restarts>>
    /\ UNCHANGED RS_Others

\* remove_alert_command: get_alert, remove_alert(alert_id) and, when it
\* returned True, save_alerts(ALERTS_FILE)
RS_RemoveAlert ==
    /\ rs_up
    /\ rs_n < MaxCalls
    /\ \E i \in 1..Len(rs_alerts), outcome \in WriteOutcomes :
          LET alert_id == rs_alerts[i][1]
              alerts   == remove_entry(rs_alerts, alert_id)
          IN /\ rs_alerts' = alerts
             /\ rs_file' = FileAfterWrite(rs_file, outcome,
                                          DumpAll("price_alert", alerts))
             /\ rs_fired' = rs_fired \ {alert_id}
    /\ rs_n' = rs_n + 1
    /\ UNCHANGED <<rs_up, rs_restarts>>
    /\ UNCHANGED RS_Others

\* one check cycle whose price fetch succeeded: every alert not yet
\* triggered for which is_triggered(price) holds is set triggered and
\* notified; the cycle does not write the alerts file
RS_Cycle ==
    /\ rs_up
    /\ \E price \in RS_Prices :
          LET fires(i) == /\ ~rs_alerts[i][2].triggered
                          /\ is_triggered(rs_alerts[i][2], price)
              alerts == [i \in 1..Len(rs_alerts) |->
                            IF fires(i)
                            THEN <<rs_alerts[i][1],
                                   [rs_alerts[i][2] EXCEPT !.triggered = TRUE]>>
                            ELSE rs_alerts[i]]
          IN /\ \E i \in 1..Len(rs_alerts) : fires(i)
             /\ rs_alerts' = alerts
             /\ rs_fired' = rs_fired \cup
                               {rs_alerts[i][1] : i \in {j \in 1..Len(rs_alerts) : fires(j)}}
    /\ UNCHANGED <<rs_up, rs_file, rs_n, rs_restarts>>
    /\ UNCHANGED RS_Others

RS_Next ==
    \/ RS_Main
    \/ RS_Exit
    \/ RS_SetAlert
    \/ RS_RemoveAlert
    \/ RS_Cycle

\* ------------------------------------------------------------------------
\* The bot process and its strategies: main() loads the strategies file,
\* the creation handler adds, saves and schedules, the removal handler
\* cancels, removes and saves
\* ------------------------------------------------------------------------
\* the strategies the creation conversation can end with
BT_NewStrategies ==
    {NewStrategy("s1", "sma_crossover",
                 <<<<"short_period", 3>>, <<"long_period", 5>>,
                   <<"timeframe", S_1h>>>>),
     NewStrategy("s1", "sma_crossover",
                 <<<<"short_period", 1>>, <<"long_period", 2>>,
                   <<"timeframe", S_1m>>>>),
     NewStrategy("s2", "rsi", <<<<"period", 2>>, <<"timeframe", S_1x>>>>)}

\* f"strategy_{strategy.name}"
StrategyTaskId(name) ==
    CASE name = "s1" -> "strategy_s1"
      [] name = "s2" -> "strategy_s2"

\* the keys of interval_map (every key maps to itself)
IntervalMapKeys ==
    {<<"1", "m">>, <<"5", "m">>, <<"1", "5", "m">>, <<"3", "0", "m">>,
     <<"1", "h">>, <<"4", "h">>, <<"1", "d">>}

\* interval_map.get(params.get('timeframe', '1h'), '1h')
StrategyInterval(params) ==
    LET timeframe == GetOr(params, "timeframe", S_1h)
    IN IF timeframe \in IntervalMapKeys THEN timeframe ELSE S_1h

BT_Off ==
    /\ bt_up = FALSE
    /\ bt_strategies = <<>>
    /\ bt_heap = <<>>
    /\ bt_jobs = <<>>
    /\ bt_file = None
    /\ bt_n = 0
    /\ bt_restarts = 0

\* no process yet and no strategies file
BT_Init ==
    /\ bt_up = FALSE
    /\ bt_strategies = <<>>
    /\ bt_heap = <<>>
    /\ bt_jobs = <<>>
    /\ bt_file = None
    /\ bt_n = 0
    /\ bt_restarts = 0

\* main(): the manager and the scheduler are created empty,
\* load_strategies(STRATEGIES_FILE) reads the file if there is one,
\* scheduler.start() follows; schedule_task is not called
BT_Main ==
    /\ ~bt_up
    /\ bt_restarts < MaxRestarts
    /\ bt_strategies' = IF IsNone(bt_file) \/ LoadRaises("strategy", bt_file)
                        THEN <<>>
                        ELSE LoadAll("strategy", bt_file, 0)
    /\ bt_heap' = <<>>
    /\ bt_jobs' = <<>>
    /\ bt_up' = TRUE
    /\ bt_restarts' = bt_restarts + 1
    /\ UNCHANGED <<bt_file, bt_n>>
    /\ UNCHANGED BT_Others

\* the process ends; the registry and the jobs are gone with it
BT_Exit ==
    /\ bt_up
    /\ bt_up' = FALSE
    /\ bt_strategies' = <<>>
    /\ bt_heap' = <<>>
    /\ bt_jobs' = <<>>
    /\ UNCHANGED <<bt_file, bt_n, bt_restarts>>
    /\ UNCHANGED BT_Others

\* the last step of the creation conversation: add_strategy(strategy),
\* save_strategies(STRATEGIES_FILE), scheduler.schedule_task(...,
\* task_id=f"strategy_{strategy.name}")
BT_SetStrategy ==
    /\ bt_up
    /\ bt_n < MaxCalls
    /\ \E strategy \in BT_NewStrategies, outcome \in WriteOutcomes :
          LET strategies == DictSet(bt_strategies, strategy.name, strategy)
              period     == IntervalPeriod(StrategyInterval(strategy.params))
          IN /\ bt_strategies' = strategies
             /\ bt_file' = FileAfterWrite(bt_file, outcome,
                                          DumpAll("strategy", strategies))
             /\ IF IsNone(period)
                THEN UNCHANGED <<bt_heap, bt_jobs>>
                ELSE /\ bt_heap' = Append(bt_heap,
                                          NewJob(StrategyTaskId(strategy.name),
                                                 Val(period), 0))
                     /\ bt_jobs' = Append(bt_jobs, Len(bt_heap) + 1)
    /\ bt_n' = bt_n + 1
    /\ UNCHANGED <<bt_up, bt_restarts>>
    /\ UNCHANGED BT_Others

\* remove_strategy_command for a strategy get_strategy finds:
\* scheduler.cancel_task(f"strategy_{name}"), remove_strategy(name),
\* save_strategies(STRATEGIES_FILE)
BT_RemoveStrategy ==
    /\ bt_up
    /\ bt_n < MaxCalls
    /\ \E strategy_name \in StrategyNames, outcome \in WriteOutcomes :
          LET found      == get_jobs(bt_heap, bt_jobs, StrategyTaskId(strategy_name))
              strategies == DictDel(bt_strategies, strategy_name)
          IN /\ DictHas(bt_strategies, strategy_name)
             /\ bt_jobs' = SelectSeq(bt_jobs, LAMBDA j : j \notin JobsToCancel(found))
             /\ bt_strategies' = strategies
             /\ bt_file' = FileAfterWrite(bt_file, outcome,
                                          DumpAll("strategy", strategies))
    /\ bt_n' = bt_n + 1
    /\ UNCHANGED <<bt_up, bt_heap, bt_restarts>>
    /\ UNCHANGED BT_Others

BT_Next ==
    \/ BT_Main
    \/ BT_Exit
    \/ BT_SetStrategy
    \/ BT_RemoveStrategy

\* ------------------------------------------------------------------------
\* Specifications
\* ------------------------------------------------------------------------
Init == PA_Init /\ IT_Off /\ MT_Off /\ TK_Off /\ SN_Init /\ SC_Init
    /\ SM_Init /\ CX_Off /\ AN_Off /\ MA_Off /\ LC_Off /\ RT_Off /\ PS_Off
    /\ RJ_Off /\ LK_Off /\ VW_Off /\ RS_Off /\ BT_Off

SpecAlerts == Init /\ [][PA_Next]_vars

InitIsTriggered == PA_Init /\ IT_Init /\ MT_Off /\ TK_Off /\ SN_Init
    /\ SC_Init /\ SM_Init /\ CX_Off /\ AN_Off /\ MA_Off /\ LC_Off /\ RT_Off
    /\ PS_Off /\ RJ_Off /\ LK_Off /\ VW_Off /\ RS_Off /\ BT_Off

SpecIsTriggered == InitIsTriggered /\ [][IT_Next]_vars

InitMatch == PA_Init /\ IT_Off /\ MT_Init /\ TK_Off /\ SN_Init /\ SC_Init
    /\ SM_Init /\ CX_Off /\ AN_Off /\ MA_Off /\ LC_Off /\ RT_Off /\ PS_Off
    /\ RJ_Off /\ LK_Off /\ VW_Off /\ RS_Off /\ BT_Off

SpecMatch == InitMatch /\ [][MT_Next]_vars

InitToken == PA_Init /\ IT_Off /\ MT_Off /\ TK_Init /\ SN_Init /\ SC_Init
    /\ SM_Init /\ CX_Off /\ AN_Off /\ MA_Off /\ LC_Off /\ RT_Off /\ PS_Off
    /\ RJ_Off /\ LK_Off /\ VW_Off /\ RS_Off /\ BT_Off

SpecToken == InitToken /\ [][TK_Next]_vars

SpecSniper == Init /\ [][SN_Next]_vars

SpecScheduler == Init /\ [][SC_Next]_vars

SpecManager == Init /\ [][SM_Next]_vars

InitCrossover == PA_Init /\ IT_Off /\ MT_Off /\ TK_Off /\ SN_Init /\ SC_Init
    /\ SM_Init /\ CX_Init /\ AN_Off /\ MA_Off /\ LC_Off /\ RT_Off /\ PS_Off
    /\ RJ_Off /\ LK_Off /\ VW_Off /\ RS_Off /\ BT_Off

SpecCrossover == InitCrossover /\ [][CX_Next]_vars

InitAnalyze == PA_Init /\ IT_Off /\ MT_Off /\ TK_Off /\ SN_Init /\ SC_Init
    /\ SM_Init /\ CX_Off /\ AN_Init /\ MA_Off /\ LC_Off /\ RT_Off /\ PS_Off
    /\ RJ_Off /\ LK_Off /\ VW_Off /\ RS_Off /\ BT_Off

SpecAnalyze == InitAnalyze /\ [][AN_Next]_vars

InitSma == PA_Init /\ IT_Off /\ MT_Off /\ TK_Off /\ SN_Init /\ SC_Init
    /\ SM_Init /\ CX_Off /\ AN_Off /\ MA_Init /\ LC_Off /\ RT_Off /\ PS_Off
    /\ RJ_Off /\ LK_Off /\ VW_Off /\ RS_Off /\ BT_Off

SpecSma == InitSma /\ [][MA_Next]_vars

InitLifecycle == PA_Init /\ IT_Off /\ MT_Off /\ TK_Off /\ SN_Init /\ SC_Init
    /\ SM_Init /\ CX_Off /\ AN_Off /\ MA_Off /\ LC_Init /\ RT_Off /\ PS_Off
    /\ RJ_Off /\ LK_Off /\ VW_Off /\ RS_Off /\ BT_Off

SpecLifecycle == InitLifecycle /\ [][LC_Next]_vars

\* join(timeout=5) returns once the thread has ended or 5 seconds have
\* passed; a loop thread that is at "while self.running" or whose
\* time.sleep has run out is scheduled again.  A cycle may last for ever
\* (a network call that never returns), so nothing is assumed of LC_Cycle.
SpecLifecycleFair ==
    /\ InitLifecycle
    /\ [][LC_Next]_vars
    /\ WF_vars(LC_JoinReturns)
    /\ WF_vars(LC_Test)
    /\ WF_vars(LC_Wake)

\* every loop thread is scheduled: a thread at "while self.running" makes
\* the test and a thread whose time.sleep has run out wakes up.  Nothing is
\* assumed of LC_Cycle, nor of the caller of start and stop.
SpecLoopFair ==
    /\ InitLifecycle
    /\ [][LC_Next]_vars
    /\ \A t \in 1..MaxThreads : WF_vars(LC_TestOf(t)) /\ WF_vars(LC_WakeOf(t))

InitRoundTrip == PA_Init /\ IT_Off /\ MT_Off /\ TK_Off /\ SN_Init /\ SC_Init
    /\ SM_Init /\ CX_Off /\ AN_Off /\ MA_Off /\ LC_Off /\ RT_Init /\ PS_Off
    /\ RJ_Off /\ LK_Off /\ VW_Off /\ RS_Off /\ BT_Off

SpecRoundTrip == InitRoundTrip /\ [][RT_Next]_vars

InitPersist == PA_Init /\ IT_Off /\ MT_Off /\ TK_Off /\ SN_Init /\ SC_Init
    /\ SM_Init /\ CX_Off /\ AN_Off /\ MA_Off /\ LC_Off /\ RT_Off /\ PS_Init
    /\ RJ_Off /\ LK_Off /\ VW_Off /\ RS_Off /\ BT_Off

SpecPersist == InitPersist /\ [][PS_Next]_vars

InitCommands == PA_Init /\ IT_Off /\ MT_Off /\ TK_Off /\ SN_Init /\ SC_Init
    /\ SM_Init /\ CX_Off /\ AN_Off /\ MA_Off /\ LC_Off /\ RT_Off /\ PS_Off
    /\ RJ_Init /\ LK_Off /\ VW_Off /\ RS_Off /\ BT_Off

SpecCommands == InitCommands /\ [][RJ_Next]_vars

InitLock == PA_Init /\ IT_Off /\ MT_Off /\ TK_Off /\ SN_Init /\ SC_Init
    /\ SM_Init /\ CX_Off /\ AN_Off /\ MA_Off /\ LC_Off /\ RT_Off /\ PS_Off
    /\ RJ_Off /\ LK_Init /\ VW_Off /\ RS_Off /\ BT_Off

SpecLock == InitLock /\ [][LK_Next]_vars

InitViews == PA_Init /\ IT_Off /\ MT_Off /\ TK_Off /\ SN_Init /\ SC_Init
    /\ SM_Init /\ CX_Off /\ AN_Off /\ MA_Off /\ LC_Off /\ RT_Off /\ PS_Off
    /\ RJ_Off /\ LK_Off /\ VW_Init /\ RS_Off /\ BT_Off

SpecViews == InitViews /\ [][VW_Next]_vars

InitRestart == PA_Init /\ IT_Off /\ MT_Off /\ TK_Off /\ SN_Init /\ SC_Init
    /\ SM_Init /\ CX_Off /\ AN_Off /\ MA_Off /\ LC_Off /\ RT_Off /\ PS_Off
    /\ RJ_Off /\ LK_Off /\ VW_Off /\ RS_Init /\ BT_Off

SpecRestart == InitRestart /\ [][RS_Next]_vars

InitTasks == PA_Init /\ IT_Off /\ MT_Off /\ TK_Off /\ SN_Init /\ SC_Init
    /\ SM_Init /\ CX_Off /\ AN_Off /\ MA_Off /\ LC_Off /\ RT_Off /\ PS_Off
    /\ RJ_Off /\ LK_Off /\ VW_Off /\ RS_Off /\ BT_Init

SpecTasks == InitTasks /\ [][BT_Next]_vars

Spec == SpecAlerts

\* ------------------------------------------------------------------------
\* Properties of the price alert registry
\* ------------------------------------------------------------------------
\* the alert objects notified / evaluated in the cycle in progress
CalledObjs == {pa_calls[i][1] : i \in 1..Len(pa_calls)}

EvaldObjs == {e[1] : e \in pa_evald}

\* the alert objects that were registered with triggered = true when the
\* cycle in progress began
TriggeredAtSnapshot ==
    {pa_snap[i].obj : i \in {j \in 1..Len(pa_snap) : pa_snap[j].triggered}}

PendingAtSnapshot ==
    {pa_snap[i].obj : i \in {j \in 1..Len(pa_snap) : ~pa_snap[j].triggered}}

\* the get_ticker calls of this cycle issued for the pair of alert object o
FetchesFor(o) ==
    {i \in 1..Len(pa_fetched) :
        pa_fetched[i].key = pa_heap[o].exchange \o <<"_">> \o pa_heap[o].symbol}

\* C1: the notification callback is invoked at most once for every alert,
\* and an alert that is triggered when a cycle begins is neither evaluated
\* nor notified in that cycle.
C1_NotifiedAtMostOnce ==
    /\ \A o \in 1..Len(pa_heap) : pa_notified[o] <= 1
    /\ \A o \in TriggeredAtSnapshot : o \notin EvaldObjs /\ o \notin CalledObjs

\* C1 witness: an alert notified in an earlier cycle is registered and
\* triggered when a later cycle begins, and that cycle evaluates another
\* alert and ends.
C1_Witness ==
    /\ pa_pc = "done"
    /\ EvaldObjs # {}
    /\ \E o \in TriggeredAtSnapshot : pa_notified[o] = 1

\* C2: for an alert that is not triggered when a cycle begins, with
\* condition 'above' on a supported exchange: when the cycle ends, a price
\* fetched below the target has left it untriggered and not notified, and a
\* price fetched at or above the target has set triggered and invoked the
\* callback exactly once, with that alert and that price; no alert is ever
\* notified twice.
C2_AboveFiresOnceAtTarget ==
    /\ \A o \in 1..Len(pa_heap) : pa_notified[o] <= 1
    /\ pa_pc = "done" =>
          \A o \in PendingAtSnapshot :
             (pa_heap[o].condition = S_above
                 /\ pa_heap[o].exchange \in {S_btcc, S_coinbase}) =>
                \A i \in FetchesFor(o) :
                   pa_fetched[i].price # None =>
                      LET p == Val(pa_fetched[i].price)
                          calls == {j \in 1..Len(pa_calls) : pa_calls[j][1] = o}
                      IN IF p < pa_heap[o].target_price
                         THEN ~pa_heap[o].triggered /\ calls = {}
                         ELSE /\ pa_heap[o].triggered
                              /\ Cardinality(calls) = 1
                              /\ \A j \in calls : pa_calls[j] = <<o, p>>

\* C4: in one cycle every pair is fetched at most once, every fetch is
\* issued for the pair of an alert that was registered and not triggered
\* when the cycle began, every evaluation uses the one price fetched for
\* the alert's pair, and once that price has been used every alert of the
\* pair that was not triggered at the snapshot has been evaluated with it.
C4_OneFetchPerPair ==
    /\ \A i, j \in 1..Len(pa_fetched) :
          (pa_fetched[i].exchange_name = pa_fetched[j].exchange_name
              /\ pa_fetched[i].symbol = pa_fetched[j].symbol) => i = j
    /\ \A o \in 1..Len(pa_heap) : Cardinality(FetchesFor(o)) <= 1
    /\ \A i \in 1..Len(pa_fetched) :
          \E o \in PendingAtSnapshot : i \in FetchesFor(o)
    /\ \A e \in pa_evald :
          /\ e[1] \in PendingAtSnapshot
          /\ \E i \in FetchesFor(e[1]) :
                pa_fetched[i].used /\ pa_fetched[i].price = Some(e[2])
    /\ \A o \in PendingAtSnapshot :
          \A i \in FetchesFor(o) :
             (pa_fetched[i].used /\ (i < pa_gi \/ pa_pc \in {"notify", "done"}))
                => <<o, Val(pa_fetched[i].price)>> \in pa_evald

\* C4 witness: a cycle ends in which two alerts of one pair were evaluated
\* with one fetch, while a registered triggered alert caused none.
C4_Witness ==
    /\ pa_pc = "done"
    /\ Len(pa_fetched) = 1
    /\ Cardinality(EvaldObjs) = 2
    /\ \E o \in 1..Len(pa_heap) : pa_heap[o].triggered

\* ------------------------------------------------------------------------
\* Properties of PriceAlert.is_triggered
\* ------------------------------------------------------------------------
\* C3: is_triggered(price) is true exactly when the condition is 'above'
\* and price >= target or the condition is 'below' and price <= target; the
\* call leaves the alert as it was and its result does not depend on the
\* triggered flag.
C3_IsTriggeredIff ==
    it_result # None =>
       LET a == Val(it_alert)
       IN /\ Val(it_result) <=>
                \/ a.condition = S_above /\ it_price >= a.target_price
                \/ a.condition = S_below /\ it_price <= a.target_price
          /\ it_alert = it_before
          /\ is_triggered([a EXCEPT !.triggered = ~a.triggered], it_price)
                = Val(it_result)

\* C3 witness: a call at price = target on an 'above' alert whose triggered
\* flag is already set has returned true.
C3_Witness ==
    /\ it_result = Some(TRUE)
    /\ Val(it_alert).condition = S_above
    /\ Val(it_alert).triggered
    /\ it_price = Val(it_alert).target_price

\* ------------------------------------------------------------------------
\* Sniper alerts and tokens
\* ------------------------------------------------------------------------
NoDuplicates(seq) ==
    \A i, j \in 1..Len(seq) : seq[i] = seq[j] => i = j

IsPrefixOf(s, t) ==
    Len(s) <= Len(t) /\ SubSeq(t, 1, Len(s)) = s

\* C5: once a token id is in an alert's triggered_tokens, matches_token is
\* false for that token in every later state, whatever the token's data and
\* the time have become; triggered_tokens never loses an id, never changes
\* the order of the ids it holds and never holds an id twice.
C5_TriggeredTokenNeverMatches ==
    /\ [](/\ Val(mt_token).token_id \in Range(Val(mt_alert).triggered_tokens)
             => /\ ~matches_token(Val(mt_alert), Val(mt_token), mt_now)
                /\ mt_result # Some(TRUE)
          /\ NoDuplicates(Val(mt_alert).triggered_tokens))
    /\ [][IsPrefixOf(Val(mt_alert).triggered_tokens,
                     Val(mt_alert)'.triggered_tokens)]_vars

\* the token was recorded by mark_token_triggered, its data changed since,
\* every other criterion of the alert is met, and matches_token said no
C5_Witness ==
    /\ Val(mt_alert).triggered_tokens = <<"shiba", "dogeclone">>
    /\ Val(mt_token).token_id = "dogeclone"
    /\ mt_updates > 0
    /\ matches_token([Val(mt_alert) EXCEPT !.triggered_tokens = <<>>],
                     Val(mt_token), mt_now)
    /\ mt_result = Some(FALSE)

\* the alert of the scenario: max_market_cap = 1,000,000, keywords = ['doge']
IsScenarioAlert(alert) ==
    /\ alert.max_market_cap = Some(1000000)
    /\ alert.keywords = <<S_doge>>
    /\ alert.exclude_keywords = <<>>
    /\ IsNone(alert.min_price_change) /\ IsNone(alert.min_volume_change)

\* some keyword is, ignoring case, a substring of the name or of the symbol
KeywordInNameOrSymbol(alert, token) ==
    \E k \in Range(alert.keywords) :
        \/ Contains(Lower(token.name), Lower(k))
        \/ Contains(Lower(token.symbol), Lower(k))

\* C7: for the alert with max_market_cap = 1,000,000 and keywords = ['doge'],
\* 'Shiba' at market cap 500,000 does not match, 'Dogeclone' at 2,000,000
\* does not match and 'Dogeclone' at 500,000 matches; for every alert with
\* keywords, a market cap ceiling and no other threshold, a token not yet
\* triggered, on an accepted chain and of known market cap matches iff a
\* keyword is a case-insensitive substring of its name or symbol and its
\* market cap is at most the ceiling.
C7_KeywordAndMarketCap ==
    mt_result # None =>
        LET alert == Val(mt_alert)
            token == Val(mt_token)
            fresh == /\ ~AlreadyTriggered(alert, token)
                     /\ ~ChainFails(alert, token)
        IN /\ (IsScenarioAlert(alert) /\ fresh) =>
                 /\ (token.name = S_Shiba /\ token.market_cap = Some(500000))
                       => mt_result = Some(FALSE)
                 /\ (token.name = S_Dogeclone /\ token.market_cap = Some(2000000))
                       => mt_result = Some(FALSE)
                 /\ (token.name = S_Dogeclone /\ token.market_cap = Some(500000))
                       => mt_result = Some(TRUE)
           /\ (/\ fresh
               /\ alert.keywords # <<>>
               /\ alert.exclude_keywords = <<>>
               /\ ~IsNone(alert.max_market_cap)
               /\ ~IsNone(token.market_cap)
               /\ IsNone(alert.min_price_change)
               /\ IsNone(alert.min_volume_change)) =>
                 (Val(mt_result) <=>
                     /\ KeywordInNameOrSymbol(alert, token)
                     /\ Val(token.market_cap) <= Val(alert.max_market_cap))

\* 'Dogeclone' at 500,000 matched the scenario's alert
C7_Witness ==
    /\ IsScenarioAlert(Val(mt_alert))
    /\ Val(mt_token).name = S_Dogeclone
    /\ Val(mt_token).market_cap = Some(500000)
    /\ mt_result = Some(TRUE)

NonDecreasing(history) ==
    \A i, j \in 1..Len(history) :
        i <= j => history[i].timestamp <= history[j].timestamp

\* the last entries of `all`, at most 100 of them
MostRecent(all) ==
    IF Len(all) > 100 THEN SubSeq(all, Len(all) - 99, Len(all)) ELSE all

\* C8: after any number of update_price calls both histories hold at most
\* 100 entries, they are the most recent entries appended, in the order
\* appended, and their timestamps never decrease.
C8_HistoryCapped ==
    tk_token # None =>
        LET token == Val(tk_token)
        IN /\ Len(token.price_history) <= 100
           /\ Len(token.volume_history) <= 100
           /\ token.price_history = MostRecent(tk_prices)
           /\ token.volume_history = MostRecent(tk_volumes)
           /\ NonDecreasing(token.price_history)
           /\ NonDecreasing(token.volume_history)

\* more than 100 updates with volume: the oldest entries are gone
C8_Witness ==
    /\ tk_token # None
    /\ Len(tk_prices) > 100 /\ Len(tk_volumes) > 100
    /\ Len(Val(tk_token).price_history) = 100
    /\ Len(Val(tk_token).volume_history) = 100
    /\ Val(tk_token).price_history[1].price = tk_n - 99
    /\ Val(tk_token).price_history[1].timestamp
           < Val(tk_token).price_history[100].timestamp

\* number of notification_callback calls made for a pair
CallsFor(pair) == Cardinality({i \in 1..Len(sn_calls) : sn_calls[i] = pair})

\* C6: over the monitoring cycles the notification callback is invoked at
\* most once for each (alert, token) pair, and every pair notified in a cycle
\* is one for which matches_token was true in that cycle's check.
C6_SniperNotifiesOncePerPair ==
    /\ \A i \in 1..Len(sn_calls) : CallsFor(sn_calls[i]) <= 1
    /\ \A i \in 1..Len(sn_cycle) : sn_cycle[i] \in sn_matched

\* a pair notified in the first cycle is still known in the second cycle,
\* whose check has run on updated token data
C6_Witness ==
    /\ sn_cycles = 2
    /\ sn_pc \in {"notify", "sleep"}
    /\ \E i \in 1..Len(sn_calls) :
          /\ sn_calls[i] \notin Range(sn_cycle)
          /\ sn_calls[i][1] \in {sn_alerts[k][2] : k \in 1..Len(sn_alerts)}
          /\ DictHas(sn_tokens, sn_calls[i][2])
          /\ Len(DictGet(sn_tokens, sn_calls[i][2]).price_history) > 0

\* ------------------------------------------------------------------------
\* Scheduler
\* ------------------------------------------------------------------------
\* C9: a job that cancel_task (returning true) found under its id before the
\* scheduler loop had ever collected it as due is never executed: it has not
\* run, it is not registered and it is not waiting to run; and a cancel_task
\* that removes a job leaves no registered job with that job's id.
C9_CancelledBeforeDueNeverRuns ==
    /\ [](\A j \in sc_early :
             /\ sc_heap[j].runs = 0
             /\ j \notin Range(sc_jobs)
             /\ j \notin Range(sc_runnable))
    /\ [][\A j \in Range(sc_jobs) \ Range(sc_jobs') :
             \A k \in Range(sc_jobs') : sc_heap[k].tag # sc_heap[j].tag]_vars

\* a job cancelled before its first due tick, and a tick at or after its due
\* time that has run another job
C9_Witness ==
    /\ sc_pc = "sleep"
    /\ \E j \in sc_early :
          /\ sc_now >= sc_heap[j].next_run
          /\ \E k \in 1..Len(sc_tick) : sc_tick[k].job # j

\* C10: when the function of a scheduled task raises, the loop goes on to
\* the next due job of the tick or to its sleep, the job list is untouched,
\* the failing job is scheduled one period later, and at the end of every
\* tick each job collected as due has been dispatched.
C10_FailingTaskIsolated ==
    /\ [](sc_pc = "sleep" => [k \in 1..Len(sc_tick) |-> sc_tick[k].job] = sc_due)
    /\ [][(/\ Len(sc_tick') = Len(sc_tick) + 1
           /\ sc_tick'[Len(sc_tick')].raised)
          => LET j == sc_runnable[1]
             IN /\ sc_running'
                /\ sc_pc' \in {"run", "sleep"}
                /\ sc_runnable' = Tail(sc_runnable)
                /\ sc_jobs' = sc_jobs
                /\ sc_heap'[j].next_run = sc_now + sc_heap[j].period
                /\ sc_heap'[j].runs = sc_heap[j].runs + 1]_vars

\* in one tick the task of a job raised and the job due after it was still
\* dispatched: a registered job whose task had raised in an earlier tick and
\* has now run again
C10_Witness ==
    /\ sc_pc = "sleep"
    /\ \E a, b \in 1..Len(sc_tick) :
          /\ a < b
          /\ sc_tick[a].raised
          /\ ~sc_tick[b].raised
          /\ sc_heap[sc_tick[b].job].failed
          /\ sc_tick[a].job \in Range(sc_jobs)
          /\ sc_tick[b].job \in Range(sc_jobs)

\* ------------------------------------------------------------------------
\* Claims about the strategy manager
\* ------------------------------------------------------------------------
\* C11: execute_strategy(name) invokes the order callback with
\* (strategy, signal) exactly once when analyze returned BUY or SELL and
\* never when it returned HOLD; for a name that is not in the registry it
\* returns None, calls neither analyze nor the callback, and leaves the
\* registry as it was.
C11_ExecuteCallsBackOnSignal ==
    ~IsNone(sm_last) =>
        LET e == Val(sm_last)
        IN IF DictHas(e.before, e.name)
           THEN /\ (~IsNone(e.signal) /\ Val(e.signal) \in {BUY, SELL}) =>
                       /\ Len(e.calls) = 1
                       /\ e.calls[1] = <<DictGet(e.after, e.name), Val(e.signal)>>
                /\ e.signal = Some(HOLD) => e.calls = <<>>
           ELSE /\ e.result = None
                /\ e.analyzed = <<>>
                /\ e.calls = <<>>
                /\ e.after = e.before

C11_Witness ==
    /\ ~IsNone(sm_last)
    /\ DictHas(Val(sm_last).before, Val(sm_last).name)
    /\ Val(sm_last).signal = Some(BUY)
    /\ Len(Val(sm_last).calls) = 1
    /\ Val(sm_last).result = Some(BUY)

\* ------------------------------------------------------------------------
\* Claims about the crossover strategies
\* ------------------------------------------------------------------------
\* the short and the long average of a strategy at candle k of a series
AverageAt(s, period, series, k) ==
    LET prices == SubSeq(series, 1, k)
        values == IF s.strategy_type = "sma_crossover"
                  THEN calculate_sma(prices, period)
                  ELSE calculate_ema(prices, period)
    IN values[Len(values)]

ShortAt(s, series, k) == AverageAt(s, s.short_period, series, k)

LongAt(s, series, k) == AverageAt(s, s.long_period, series, k)

\* both averages exist at candle k
Defined(s, k) == k >= s.long_period /\ k >= s.short_period

ShortAbove(s, series, k) ==
    Defined(s, k) /\ FracLT(LongAt(s, series, k), ShortAt(s, series, k))

ShortBelow(s, series, k) ==
    Defined(s, k) /\ FracLT(ShortAt(s, series, k), LongAt(s, series, k))

\* the first candle at which the short average exceeds the long one
\* (0 when there is none)
FirstAbove(s, series) ==
    IF \E k \in 1..Len(series) : ShortAbove(s, series, k)
    THEN CHOOSE k \in 1..Len(series) :
             /\ ShortAbove(s, series, k)
             /\ \A j \in 1..(k - 1) : ~ShortAbove(s, series, j)
    ELSE 0

IsScenarioRun ==
    /\ cx_strategy.strategy_type = "sma_crossover"
    /\ cx_strategy.short_period = 3
    /\ cx_strategy.long_period = 5
    /\ cx_series = ScenarioCloses

\* C12: an SMA crossover strategy with short period 3 and long period 5,
\* analysed on the successive prefixes of 10,10,10,10,10,12,14,16, returns
\* HOLD on every prefix before the 3-period SMA first exceeds the 5-period
\* SMA and BUY on the prefix at which it first exceeds it.
C12_ScenarioBuyAtFirstCross ==
    IsScenarioRun =>
        \A k \in 1..cx_n :
            /\ k < FirstAbove(cx_strategy, cx_series) => cx_signals[k] = HOLD
            /\ k = FirstAbove(cx_strategy, cx_series) => cx_signals[k] = BUY

\* the short average goes from <= the long one to > it at candle k
UpAt(s, series, k) ==
    /\ Defined(s, k - 1)
    /\ FracLE(ShortAt(s, series, k - 1), LongAt(s, series, k - 1))
    /\ ShortAbove(s, series, k)

\* the short average goes from >= the long one to < it at candle k
DownAt(s, series, k) ==
    /\ Defined(s, k - 1)
    /\ FracLE(LongAt(s, series, k - 1), ShortAt(s, series, k - 1))
    /\ ShortBelow(s, series, k)

UpCandles(s, series) == {k \in 1..Len(series) : UpAt(s, series, k)}

DownCandles(s, series) == {k \in 1..Len(series) : DownAt(s, series, k)}

\* the short average rises above the long one once and later falls below
\* it once
CrossesUpThenDown(s, series) ==
    /\ Cardinality(UpCandles(s, series)) = 1
    /\ Cardinality(DownCandles(s, series)) = 1
    /\ \A u \in UpCandles(s, series), d \in DownCandles(s, series) : u < d

\* C13: when a crossover strategy (SMA or EMA) is analysed once per
\* appended candle over a series in which the short average rises above
\* the long one once and later falls below it once, the results are BUY at
\* the candle of the upward crossing, SELL at the candle of the downward
\* crossing and HOLD at every other candle.
C13_OneBuyThenOneSell ==
    CrossesUpThenDown(cx_strategy, cx_series) =>
        \A k \in 1..cx_n :
            cx_signals[k] =
                IF UpAt(cx_strategy, cx_series, k) THEN BUY
                ELSE IF DownAt(cx_strategy, cx_series, k) THEN SELL
                ELSE HOLD

\* the candles the source of the call hands to analyze
Delivered(src) == IF src.kind = "candles" THEN src.candles ELSE <<>>

\* the number of candles a strategy requires
Required(s) ==
    IF s.strategy_type \in {"sma_crossover", "ema_crossover"}
    THEN s.long_period + 2
    ELSE IF s.strategy_type \in {"rsi", "bollinger_bands"} THEN s.period + 2
    ELSE 0

\* fewer candles than required, no candle, a candle without a usable
\* 'close', or a failing source
Degraded(s, src) ==
    \/ src.kind = "raises"
    \/ Delivered(src) = <<>>
    \/ Len(Delivered(src)) < Required(s)
    \/ BadCandle(Delivered(src))

\* C14: analyze never lets an exception out, for any strategy type; with
\* fewer candles than required, an empty candle list, a candle lacking a
\* usable 'close' or a failing candle source it returns HOLD.
C14_AnalyzeNeverRaises ==
    ~IsNone(an_result) =>
        /\ ~Val(an_result).propagated
        /\ Degraded(an_strategy, an_src) => Val(an_result).signal = HOLD

C14_Witness ==
    /\ ~IsNone(an_result)
    /\ an_strategy.strategy_type = "rsi"
    /\ an_src.kind = "candles"
    /\ Len(an_src.candles) >= Required(an_strategy)
    /\ BadCandle(an_src.candles)
    /\ Val(an_result) = [signal |-> HOLD, propagated |-> FALSE]

RECURSIVE SumFromTo(_, _, _)
\* p[a] + ... + p[b]
SumFromTo(p, a, b) == IF a > b THEN 0 ELSE p[a] + SumFromTo(p, a + 1, b)

\* the fraction v equals the arithmetic mean of p[i], ..., p[i+n-1]
IsMeanOf(v, p, i, n) == v[2] > 0 /\ v[1] * n = SumFromTo(p, i, i + n - 1) * v[2]

\* C15: for 1 <= n <= len(p), calculate_sma(p, n) has len(p)-n+1 elements
\* and its i-th element is the arithmetic mean of p[i..i+n-1]; for
\* len(p) < n the result is empty.
C15_SmaIsWindowMean ==
    ~IsNone(ma_result) =>
        LET r == Val(ma_result)
        IN IF ma_period <= Len(ma_prices)
           THEN /\ Len(r) = Len(ma_prices) - ma_period + 1
                /\ \A i \in 1..Len(r) : IsMeanOf(r[i], ma_prices, i, ma_period)
           ELSE r = <<>>

C15_Witness ==
    /\ ~IsNone(ma_result)
    /\ ma_prices = <<1, 2, 4, 4>>
    /\ ma_period = 2
    /\ Val(ma_result) = << <<3, 2>>, <<6, 2>>, <<8, 2>> >>

\* ------------------------------------------------------------------------
\* Claims about failures inside a price alert cycle
\* ------------------------------------------------------------------------
\* the alert objects of the group at index i of the cycle in progress
GroupObjs(i) == Range(pa_map[i][2])

\* C16: when the price fetch of one (exchange, symbol) group fails or
\* raises, every alert of that group stays non-triggered and unnotified,
\* and every other group of the cycle is still fetched and, its price
\* being usable, evaluated.
C16_FailedFetchSkipsOnlyItsGroup ==
    /\ \A i \in 1..Len(pa_fetched) :
          /\ pa_fetched[i].key = pa_map[i][1]
          /\ ~pa_fetched[i].used =>
                \A o \in GroupObjs(i) :
                    /\ ~pa_heap[o].triggered
                    /\ o \notin CalledObjs
                    /\ o \notin EvaldObjs
    /\ pa_pc = "done" =>
          /\ Len(pa_fetched) = Len(pa_map)
          /\ \A i \in 1..Len(pa_map) :
                pa_fetched[i].used =>
                    \A o \in GroupObjs(i) :
                        <<o, Val(pa_fetched[i].price)>> \in pa_evald

\* C16 witness: a cycle of two groups has ended; the fetch of the first
\* failed, the second was fetched and its alert evaluated and triggered.
C16_Witness ==
    /\ pa_pc = "done"
    /\ Len(pa_map) = 2
    /\ ~pa_fetched[1].used
    /\ pa_fetched[2].used
    /\ \E o \in GroupObjs(2) : o \in EvaldObjs /\ pa_heap[o].triggered

\* the alerts the cycle in progress has marked triggered = true
MarkedInCycle == {o \in EvaldObjs : pa_heap[o].triggered}

\* C17: every alert a cycle marks triggered = true has the notification
\* callback invoked for it in that cycle, also when the callback raises
\* for another alert of the same group.
C17_EveryMarkedAlertNotified ==
    pa_pc = "done" => \A o \in MarkedInCycle : o \in CalledObjs

\* ------------------------------------------------------------------------
\* Claims about the callbacks of a sniper cycle
\* ------------------------------------------------------------------------
\* the buy_callback calls made for a pair
BuysFor(pair) ==
    {i \in 1..Len(sn_buys) : sn_buys[i][1] = pair[1] /\ sn_buys[i][2] = pair[2]}

\* C18: in a cycle, every (alert, token) pair for which matches_token was
\* true has the notification callback invoked for it, also when the
\* notification or the buy callback raises for another matched pair of
\* the cycle.
C18_EveryMatchedPairNotified ==
    sn_pc = "sleep" => \A pair \in sn_matched : pair \in Range(sn_cycle)

\* a buy_callback call is made for the pair whose notification_callback
\* call was the last one made
BuyFollowsNotification ==
    sn_buys' # sn_buys =>
        /\ sn_calls # <<>>
        /\ Len(sn_buys') = Len(sn_buys) + 1
        /\ <<sn_buys'[Len(sn_buys')][1], sn_buys'[Len(sn_buys')][2]>>
               = sn_calls[Len(sn_calls)]

\* when the cycle is over: one buy_callback call with the alert's amount
\* for every matched pair whose alert has auto_buy, none for the others
BuysAsConfigured ==
    sn_pc = "sleep" =>
        \A pair \in sn_matched :
            IF sn_heap[pair[1]].auto_buy
            THEN \E i \in BuysFor(pair) :
                     sn_heap[pair[1]].auto_buy_amount = Some(sn_buys[i][3])
            ELSE BuysFor(pair) = {}

\* C19: for every matched (alert, token) pair of a cycle the buy callback
\* is invoked with (alert, token, alert.auto_buy_amount) if the alert's
\* auto_buy is enabled and is not invoked if it is disabled; it is invoked
\* after the notification callback for the same pair.
C19_BuyIffAutoBuy == []BuysAsConfigured /\ [][BuyFollowsNotification]_vars

\* ------------------------------------------------------------------------
\* Claims about the loop threads of a monitor
\* ------------------------------------------------------------------------
\* a cycle is begun only by the loop thread created last
OnlyNewestLoopCycles ==
    \A t \in 1..Len(lc_threads) :
        (lc_threads[t] = "test" /\ lc_threads'[t] = "cycle") => t = Len(lc_threads)

\* a start call on a running monitor creates no thread
StartOnRunningCreatesNone ==
    (lc_running /\ lc_last # lc_last' /\ lc_last' = "already_running") =>
        lc_threads' = lc_threads

\* C20: for each monitor, after any sequence of start and stop calls at
\* most one background loop is alive and executing cycles: a start on a
\* running monitor creates no second loop, and after a stop followed by a
\* start the earlier loop does not go on executing cycles beside the new
\* one.
C20_AtMostOneLoop == [][OnlyNewestLoopCycles /\ StartOnRunningCreatesNone]_vars

\* a stop call that has returned leaves running = False and no thread handle
StoppedAfterStop ==
    (lc_cmd = "idle" /\ lc_stops >= 1) => (~lc_running /\ IsNone(lc_thread))

\* a stop call on a running monitor has set running = False when it waits
StopClearsRunning ==
    (lc_cmd = "idle" /\ lc_cmd' = "joining") => ~lc_running'

\* a stop call on a monitor that is stopped or was never started returns
\* at once and changes neither running, nor the handle, nor any thread
StopOnStoppedChangesNothing ==
    (lc_cmd = "idle" /\ ~lc_running /\ IsNone(lc_thread) /\ lc_stops' = lc_stops + 1) =>
        /\ lc_cmd' = "idle"
        /\ lc_running' = lc_running
        /\ lc_thread' = lc_thread
        /\ lc_threads' = lc_threads

\* C21: stop on a stopped or never-started monitor returns and leaves
\* running = False and no thread handle; stop on a running monitor sets
\* running = False, waits for the loop thread no longer than the timeout of
\* the join, and returns; a second stop leaves the state of the first.
C21_StopIdempotentAndBounded ==
    /\ []StoppedAfterStop
    /\ [][StopClearsRunning /\ StopOnStoppedChangesNothing]_vars
    /\ ((lc_cmd = "joining") ~> (lc_cmd = "idle"))

\* a second stop has returned after a start, the first stop having given
\* up the join while the loop thread was still alive
C21_Witness ==
    /\ lc_cmd = "idle"
    /\ lc_stops = 2
    /\ Len(lc_threads) >= 1
    /\ lc_threads[Len(lc_threads)] # "exit"

\* ------------------------------------------------------------------------
\* Claims about serialisation
\* ------------------------------------------------------------------------
\* C22: the entity that from_dict builds from the dictionary of to_dict,
\* directly or by way of json.dump and json.load, is equal to the original
\* field for field: a PriceAlert with created_at and triggered, a
\* MemeSniperAlert with triggered_tokens, a MemeToken with its price and
\* volume histories in order.
C22_RoundTripRestoresEntity ==
    rt_pc = "rebuilt" => Val(rt_rebuilt) = rt_entity

\* a sniper alert that has recorded two token ids has gone through a file
\* and has been rebuilt later than it was created
C22_Witness ==
    /\ rt_pc = "rebuilt"
    /\ rt_kind = "sniper_alert"
    /\ ~IsNone(rt_file)
    /\ Len(rt_entity.triggered_tokens) = 2
    /\ Val(rt_rebuilt).triggered_tokens = rt_entity.triggered_tokens
    /\ rt_entity.created_at = 500

\* ------------------------------------------------------------------------
\* Claims about save and load
\* ------------------------------------------------------------------------
\* C23: a save or load call that returns False has left every registry of
\* the manager as it was before the call: the token map and the alert map
\* of MemeSniper, the alerts of PriceAlertManager, the strategies of
\* StrategyManager.
C23_FailureLeavesRegistries ==
    [][(ps_last' # ps_last /\ ~Val(ps_last').result) =>
           (ps_tokens' = ps_tokens /\ ps_items' = ps_items)]_vars

\* ------------------------------------------------------------------------
\* Claims about rejected operations
\* ------------------------------------------------------------------------
\* the parameters that the claim requires of each strategy type
ClaimedParams(strategy_type) ==
    CASE strategy_type \in {"sma_crossover", "ema_crossover"} ->
             {"short_period", "long_period", "timeframe"}
      [] strategy_type = "rsi" -> {"period", "timeframe"}
      [] strategy_type = "bollinger_bands" -> {"period", "std_dev", "timeframe"}

\* an interval whose value is not written in digits only, or whose unit
\* (its last character, in either case) is not m, h or d
InvalidInterval(interval) ==
    \/ Len(interval) < 2
    \/ \E i \in 1..(Len(interval) - 1) : interval[i] \notin Range(DigitChars)
    \/ LowerChar(interval[Len(interval)]) \notin {"m", "h", "d"}

\* what the call observed in rj_last' had to do if it was invalid
RejectedAsClaimed ==
    LET call == Val(rj_last')
        unchanged == /\ rj_alerts' = rj_alerts
                     /\ rj_strategies' = rj_strategies
                     /\ rj_jobs' = rj_jobs
    IN /\ (call.op = "remove_alert" /\ call.arg \notin DictKeys(rj_alerts)) =>
              (call.result = "false" /\ unchanged)
       /\ (call.op = "remove_strategy" /\ call.arg \notin DictKeys(rj_strategies)) =>
              (call.result = "false" /\ unchanged)
       /\ (call.op = "new_strategy" /\
           ClaimedParams(call.arg[1]) \ DictKeys(call.arg[2]) # {}) =>
              (call.result = "raised" /\ unchanged)
       /\ (call.op = "schedule_task" /\ InvalidInterval(call.arg)) =>
              (call.result = "false" /\ unchanged)

\* C24: remove_alert / remove_strategy with an id that is not registered
\* returns False and removes nothing; constructing a strategy without a
\* required parameter raises and no strategy enters the registry;
\* schedule_task with a unit other than m, h, d or a value that is not an
\* integer returns False and registers no job.
C24_InvalidOperationsRejected ==
    [][rj_last' # rj_last => RejectedAsClaimed]_vars

\* a removal of an unregistered id has been refused while the registry
\* held an alert
C24_Witness ==
    /\ ~IsNone(rj_last)
    /\ Val(rj_last).op = "remove_alert"
    /\ Val(rj_last).result = "false"
    /\ Len(rj_alerts) = 1

\* ------------------------------------------------------------------------
\* Claims about the criteria of matches_token
\* ------------------------------------------------------------------------
\* the positions of the samples of a history strictly older than
\* now - 5 minutes
OlderSamples(history, now) ==
    {i \in 1..Len(history) : history[i].timestamp < now - 5}

\* the most recent of them
MostRecentOlder(history, now) ==
    CHOOSE i \in OlderSamples(history, now) :
        \A j \in OlderSamples(history, now) :
            \/ history[j].timestamp < history[i].timestamp
            \/ (history[j].timestamp = history[i].timestamp /\ j <= i)

\* (current - base) / base * 100 >= minimum, for a base > 0
ChangeAtLeast(current, base, minimum) ==
    base > 0 /\ (current - base) * 100 >= minimum * base

\* what a configured minimum change requires of the result of matches_token
ChangeCriterion(minimum, history, field, current, now, result) ==
    ~IsNone(minimum) =>
        IF OlderSamples(history, now) = {} THEN result = FALSE
        ELSE result = TRUE =>
                 ChangeAtLeast(Val(current),
                               history[MostRecentOlder(history, now)][field],
                               Val(minimum))

\* C25: with min_price_change (min_volume_change) configured, matches_token
\* returns False for a token without a price (volume) sample strictly
\* older than now - 5 minutes, and returns True only if the change against
\* the most recent such sample is at least the configured minimum.
C25_ChangeAgainstOlderSample ==
    ~IsNone(mt_result) =>
        /\ ChangeCriterion(Val(mt_alert).min_price_change,
                           Val(mt_token).price_history, "price",
                           Val(mt_token).price, mt_now, Val(mt_result))
        /\ ChangeCriterion(Val(mt_alert).min_volume_change,
                           Val(mt_token).volume_history, "volume",
                           Val(mt_token).volume_24h, mt_now, Val(mt_result))

\* a token has passed the volume criterion against a sample six minutes old
C25_Witness ==
    /\ mt_result = Some(TRUE)
    /\ ~IsNone(Val(mt_alert).min_volume_change)
    /\ OlderSamples(Val(mt_token).volume_history, mt_now) # {}
    /\ Len(Val(mt_token).volume_history) = 2

\* ------------------------------------------------------------------------
\* Claims about the registry lock
\* ------------------------------------------------------------------------
\* the loop thread is inside a network request or a callback
InsideCall ==
    /\ lk_step # 0
    /\ lk_in
    /\ StepsOf(lk_manager)[lk_step].io

\* C26: while a network fetch (get_ticker, a token request, analyze) or a
\* notification, order or buy callback is executing, the loop thread does
\* not hold the registry lock, so a command of the command layer that is
\* not yet running can take the lock even if the call never returns.
C26_NoLockDuringCalls ==
    InsideCall =>
        /\ lk_lock # Some("monitor")
        /\ lk_cmd = "idle" => ENABLED LK_CmdEnter

\* a command runs under the lock while the sniper's batch request is out
C26_Witness ==
    /\ InsideCall
    /\ lk_manager = "sniper"
    /\ StepsOf(lk_manager)[lk_step].name = "fetch_batch"
    /\ lk_cmd = "remove"
    /\ lk_lock = Some("command")

\* ------------------------------------------------------------------------
\* C27: in a MemeSniper cycle a token id is in an alert's triggered_tokens
\* only when the notification callback has already been invoked for that
\* (alert, token) pair
\* ------------------------------------------------------------------------
C27_RecordedOnlyAfterNotification ==
    \A o \in DOMAIN sn_heap :
        \A token_id \in Range(sn_heap[o].triggered_tokens) :
            <<o, token_id>> \in Range(sn_calls)

\* ------------------------------------------------------------------------
\* C28: matches_token returns true only if every configured criterion is
\* met; with a chain allow-list only a token whose chain is known and in the
\* list matches, and with a market cap ceiling only a token whose market cap
\* is known and at most the ceiling matches
\* ------------------------------------------------------------------------
ChainInAllowList(alert, token) ==
    \/ alert.chains = <<>>
    \/ /\ ~IsNone(token.chain)
       /\ Lower(Val(token.chain)) \in {Lower(c) : c \in Range(alert.chains)}

MarketCapUnderCeiling(alert, token) ==
    \/ IsNone(alert.max_market_cap)
    \/ /\ ~IsNone(token.market_cap)
       /\ Val(token.market_cap) <= Val(alert.max_market_cap)

C28_MatchOnlyWhenEveryCriterionMet ==
    mt_result = Some(TRUE) =>
        LET alert == Val(mt_alert)
            token == Val(mt_token)
        IN /\ token.token_id \notin Range(alert.triggered_tokens)
           /\ ChainInAllowList(alert, token)
           /\ MarketCapUnderCeiling(alert, token)
           /\ ~KeywordsFail(alert, token)
           /\ ~ExcludedFails(alert, token)
           /\ ~PriceChangeFails(alert, token, mt_now)
           /\ ~VolumeChangeFails(alert, token, mt_now)

\* ------------------------------------------------------------------------
\* C29: the insertion step of a MemeSniper cycle adds a MemeToken only for
\* an id that is not yet a key and leaves every known token, with its
\* histories, as it was; no step of the monitor removes a token, so the set
\* of token ids only grows
\* ------------------------------------------------------------------------
ListedIds(new_tokens) == {new_tokens[i].id : i \in 1..Len(new_tokens)}

IsPrefix(s, t) == Len(s) <= Len(t) /\ SubSeq(t, 1, Len(s)) = s

\* the insertion step applied to the token map of the state, for every
\* discovery result
InsertionKeepsKnownTokens ==
    \A new_tokens \in ListingInputs :
        LET after == AddTokens(sn_tokens, new_tokens, sn_now)
        IN /\ IsPrefix(sn_tokens, after)
           /\ DictKeys(after) = DictKeys(sn_tokens) \cup ListedIds(new_tokens)
           /\ Len(after) = Cardinality(DictKeys(after))

\* every step keeps the known ids; a known token stays the same object
\* with histories that only got longer
TokensOnlyGrow ==
    \/ sn_tokens' = sn_tokens
    \/ \A id \in DictKeys(sn_tokens) :
          /\ DictHas(sn_tokens', id)
          /\ LET old == DictGet(sn_tokens, id)
                 new == DictGet(sn_tokens', id)
             IN /\ new.created_at = old.created_at
                /\ IsPrefix(old.price_history, new.price_history)
                /\ IsPrefix(old.volume_history, new.volume_history)

C29_TokenMapOnlyGrows ==
    []InsertionKeepsKnownTokens /\ [][TokensOnlyGrow]_vars

\* a token created in an earlier cycle has a history, is listed again by the
\* discovery source, and a second token was inserted after it
C29_Witness ==
    /\ Len(sn_tokens) = 2
    /\ sn_tokens[1][2].created_at < sn_tokens[2][2].created_at
    /\ sn_tokens[1][2].price_history # <<>>
    /\ \E new_tokens \in ListingInputs : sn_tokens[1][1] \in ListedIds(new_tokens)

\* ------------------------------------------------------------------------
\* C30: calculate_rsi yields 100 at every point at which the smoothed
\* average loss is 0, a flat series included; RSIStrategy.analyze, once it
\* has the RSI values of its candles, returns BUY when the last value is
\* <= oversold, otherwise SELL when it is >= overbought, otherwise HOLD, so
\* with the default thresholds a series with no losing delta yields SELL
\* ------------------------------------------------------------------------
\* analyze reaches the RSI computation: candles with usable closes, at least
\* period + 2 of them
RsiComputed ==
    /\ an_strategy.strategy_type = "rsi"
    /\ an_strategy.period > 0
    /\ an_src.kind = "candles"
    /\ \A k \in 1..Len(an_src.candles) : an_src.candles[k] # <<>>
    /\ Len(an_src.candles) >= an_strategy.period + 2

\* the smoothed average loss at point j is 0: no delta so far was a loss
\* (with period 1 the average is the latest loss alone)
NoLossUpTo(prices, period, j) ==
    \A k \in (IF period = 1 THEN j ELSE 1)..(period + j - 1) :
        prices[k + 1] >= prices[k]

\* the signal the thresholds give for an RSI value kept as a fraction
SignalOfRsi(value, s) ==
    IF value[1] <= s.oversold * value[2] THEN BUY
    ELSE IF value[1] >= s.overbought * value[2] THEN SELL
    ELSE HOLD

C30_RsiSaturatesAndThresholds ==
    (RsiComputed /\ ~IsNone(an_result)) =>
        LET prices == [k \in 1..Len(an_src.candles) |-> an_src.candles[k][1]]
            period == an_strategy.period
            rsi    == calculate_rsi(prices, period)
        IN /\ Len(rsi) = Len(prices) - period
           /\ \A j \in 1..Len(rsi) :
                 /\ rsi[j][2] > 0
                 /\ NoLossUpTo(prices, period, j) <=> rsi[j] = <<100, 1>>
                 /\ rsi[j][1] = 100 * rsi[j][2] => NoLossUpTo(prices, period, j)
           /\ Val(an_result).signal = SignalOfRsi(rsi[Len(rsi)], an_strategy)
           /\ an_strategy.last_signal = Val(an_result).signal
           /\ ~Val(an_result).propagated
           /\ (/\ NoLossUpTo(prices, period, Len(rsi))
               /\ an_strategy.overbought <= 100)
                  => Val(an_result).signal =
                        (IF an_strategy.oversold >= 100 THEN BUY ELSE SELL)

\* a flat series analysed with the default thresholds gave SELL
C30_Witness ==
    /\ RsiComputed /\ ~IsNone(an_result)
    /\ an_strategy.oversold = 30 /\ an_strategy.overbought = 70
    /\ \A k \in 1..Len(an_src.candles) : an_src.candles[k] = an_src.candles[1]
    /\ Val(an_result).signal = SELL

\* ------------------------------------------------------------------------
\* C31: a PriceAlert's id, owner, symbol, exchange, target_price, condition
\* and created_at never change after creation; its triggered flag changes
\* only from false to true, and only in the evaluation of a check cycle in
\* which is_triggered(price) held; a triggered alert stays in the registry
\* until remove_alert is called for it
\* ------------------------------------------------------------------------
\* every object keeps all its fields but triggered
AlertFieldsFrozen ==
    \A o \in 1..Len(pa_heap) :
        /\ o <= Len(pa_heap')
        /\ [pa_heap'[o] EXCEPT !.triggered = pa_heap[o].triggered] = pa_heap[o]

\* the price meets the alert's condition
PriceMeetsCondition(alert, price) ==
    \/ alert.condition = S_above /\ price >= alert.target_price
    \/ alert.condition = S_below /\ price <= alert.target_price

\* the flag is never cleared, and it is set only by the evaluation of the
\* alert's group with a price meeting the condition
TriggeredOnlySetInCycle ==
    \A o \in 1..Len(pa_heap) :
        /\ pa_heap[o].triggered => pa_heap'[o].triggered
        /\ (~pa_heap[o].triggered /\ pa_heap'[o].triggered) =>
              /\ pa_pc = "eval"
              /\ o \in Range(pa_map[pa_gi][2])
              /\ PriceMeetsCondition(pa_heap[o], pa_price)

\* a registered triggered alert leaves the registry only by remove_alert of
\* its id
TriggeredStaysRegistered ==
    \A i \in 1..Len(pa_alerts) :
        pa_heap[pa_alerts[i][2]].triggered =>
            \/ \E j \in 1..Len(pa_alerts') : pa_alerts'[j] = pa_alerts[i]
            \/ pa_alerts' = DictDel(pa_alerts, pa_alerts[i][1])

C31_OnlyTriggeredChanges ==
    /\ [][AlertFieldsFrozen]_vars
    /\ [][TriggeredOnlySetInCycle]_vars
    /\ [][TriggeredStaysRegistered]_vars

\* ------------------------------------------------------------------------
\* C32: get_trending_tokens(limit) and get_new_listings(days, limit) return
\* at most limit tokens and change neither the token map nor a token;
\* trending is in descending order of 0.4 * price_change_1h + 0.3 *
\* price_change_24h + 0.3 * volume_change_1h, a missing component counting
\* as 0; new listings holds exactly the tokens with created_at >= now - days
\* (up to the limit), newest first
\* ------------------------------------------------------------------------
\* a change in percent, 0 when there is none, as a fraction
PercentOrZero(change) == IF change = None THEN <<0, 1>> ELSE Val(change)

\* score(a) >= score(b), the scores taken times ten and compared exactly
ScoreAtLeast(a, b, now) ==
    LET pa == PercentOrZero(calculate_price_change(a, 60, now))
        va == PercentOrZero(calculate_volume_change(a, 60, now))
        da == IF a.price_change_24h = None THEN 0 ELSE Val(a.price_change_24h)
        pb == PercentOrZero(calculate_price_change(b, 60, now))
        vb == PercentOrZero(calculate_volume_change(b, 60, now))
        db == IF b.price_change_24h = None THEN 0 ELSE Val(b.price_change_24h)
        na == 4 * pa[1] * va[2] + 3 * da * pa[2] * va[2] + 3 * va[1] * pa[2]
        nb == 4 * pb[1] * vb[2] + 3 * db * pb[2] * vb[2] + 3 * vb[1] * pb[2]
    IN na * (pb[2] * vb[2]) >= nb * (pa[2] * va[2])

Smaller(a, b) == IF a < b THEN a ELSE b

\* the list returned holds tokens of the map, each at most once
FromTheMap(r) ==
    /\ \A i \in 1..Len(r) : \E k \in 1..Len(vw_tokens) : vw_tokens[k][2] = r[i]
    /\ \A i, j \in 1..Len(r) : r[i].token_id = r[j].token_id => i = j

TrendingAsSpecified(r, limit) ==
    /\ Len(r) = Smaller(limit, Len(vw_tokens))
    /\ \A i, j \in 1..Len(r) : i < j => ScoreAtLeast(r[i], r[j], vw_now)
    /\ \A k \in 1..Len(vw_tokens) :
          (\A i \in 1..Len(r) : r[i] # vw_tokens[k][2]) =>
              \A i \in 1..Len(r) : ScoreAtLeast(r[i], vw_tokens[k][2], vw_now)

NewListingsAsSpecified(r, days, limit) ==
    LET cutoff == vw_now - days * 24 * 60
        recent == {k \in 1..Len(vw_tokens) : vw_tokens[k][2].created_at >= cutoff}
    IN /\ Len(r) = Smaller(limit, Cardinality(recent))
       /\ \A i \in 1..Len(r) : r[i].created_at >= cutoff
       /\ \A i, j \in 1..Len(r) : i < j => r[i].created_at >= r[j].created_at
       /\ \A k \in recent :
             (\A i \in 1..Len(r) : r[i] # vw_tokens[k][2]) =>
                 \A i \in 1..Len(r) : r[i].created_at >= vw_tokens[k][2].created_at

ViewsAsSpecified ==
    vw_last # None =>
        LET call == Val(vw_last)
        IN /\ Len(call.result) <= call.limit
           /\ FromTheMap(call.result)
           /\ IF call.op = "trending"
              THEN TrendingAsSpecified(call.result, call.limit)
              ELSE NewListingsAsSpecified(call.result, call.days, call.limit)

\* a view call leaves the token map and the clock as they were
ViewsChangeNothing ==
    (vw_last' # vw_last /\ vw_last' # None) => vw_tokens' = vw_tokens

C32_ViewsRankAndFilter ==
    []ViewsAsSpecified /\ [][ViewsChangeNothing]_vars

\* of three tokens the one inserted last ranks first, and the call with
\* limit 2 left one out
C32_Witness ==
    /\ vw_last # None
    /\ Val(vw_last).op = "trending"
    /\ Val(vw_last).limit = 2
    /\ Len(vw_tokens) = 3
    /\ Val(vw_last).result[1] = vw_tokens[3][2]
    /\ ~ScoreAtLeast(Val(vw_last).result[2], Val(vw_last).result[1], vw_now)

\* ------------------------------------------------------------------------
\* C33: after remove_alert(id) has returned true the notification callback
\* is never invoked for that alert and its triggered flag is never set, also
\* when the alert is removed while a check cycle that holds it in its
\* snapshot is in progress
\* ------------------------------------------------------------------------
\* the object was registered and its id is no longer a key of the registry:
\* remove_alert has removed it
WasRemoved(o) == ~DictHas(pa_alerts, pa_heap[o].alert_id)

\* the step is a notification_callback call for the object
NotifiesNow(o) ==
    /\ Len(pa_calls') = Len(pa_calls) + 1
    /\ pa_calls'[Len(pa_calls')][1] = o

RemovedStaysSilent ==
    \A o \in 1..Len(pa_heap) :
        WasRemoved(o) =>
            /\ pa_heap'[o].triggered = pa_heap[o].triggered
            /\ ~NotifiesNow(o)

C33_RemovedAlertNeverFires == [][RemovedStaysSilent]_vars

\* ------------------------------------------------------------------------
\* C34: two alerts created by separate calls always have distinct ids, so
\* add_alert never replaces a different alert of the registry
\* ------------------------------------------------------------------------
AlertIdsDistinct ==
    \A o1, o2 \in 1..Len(pa_heap) :
        o1 # o2 => pa_heap[o1].alert_id # pa_heap[o2].alert_id

\* an id of the registry leads to the object that was created with it
NoAlertReplaced ==
    \A o \in 1..Len(pa_heap) :
        DictHas(pa_alerts, pa_heap[o].alert_id) =>
            DictGet(pa_alerts, pa_heap[o].alert_id) = o

C34_DistinctAlertIds == AlertIdsDistinct /\ NoAlertReplaced

\* ------------------------------------------------------------------------
\* C35: an alert that has fired is saved as triggered before a restart can
\* load the registry, so the load at startup never restores it as not
\* triggered and it is not notified again
\* ------------------------------------------------------------------------
\* a fired alert that is in the registry of the running process is triggered
FiredStaysTriggered ==
    \A i \in 1..Len(rs_alerts) :
        rs_alerts[i][1] \in rs_fired => rs_alerts[i][2].triggered

\* no step sets the flag of an alert that has fired before
FiredNotNotifiedAgain ==
    \A i \in 1..Len(rs_alerts) :
        (/\ rs_alerts[i][1] \in rs_fired
         /\ i <= Len(rs_alerts')
         /\ rs_alerts'[i][1] = rs_alerts[i][1]
         /\ rs_alerts'[i][2].triggered)
            => rs_alerts[i][2].triggered

C35_FiredSurvivesRestart ==
    []FiredStaysTriggered /\ [][FiredNotNotifiedAgain]_vars


\* ------------------------------------------------------------------------
\* C36: after every analyze call that returned, the strategy's last_signal
\* is the signal the call returned; a HOLD returned for lack of data or
\* after an error does not leave an earlier BUY or SELL in last_signal
\* ------------------------------------------------------------------------
C36_LastSignalIsReturned ==
    ~IsNone(sm_last) =>
        LET e == Val(sm_last)
        IN (e.analyzed # <<>> /\ ~IsNone(e.signal)) =>
               DictGet(e.after, e.name).last_signal = Val(e.signal)


\* ------------------------------------------------------------------------
\* Claims about groups a check cycle cannot price
\* ------------------------------------------------------------------------
\* the fetch of group i returned (nothing was raised) and the exchange is
\* not a supported one, or the ticker has no price or a price <= 0
Unpriceable(i) ==
    /\ ~pa_fetched[i].raised
    /\ \/ pa_fetched[i].exchange_name \notin {S_btcc, S_coinbase}
       \/ IsNone(pa_fetched[i].value)
       \/ Val(pa_fetched[i].value) <= 0

\* no alert of an unpriceable group is evaluated, marked or notified
UnpriceableGroupUntouched ==
    \A i \in 1..Len(pa_fetched) :
        Unpriceable(i) =>
            /\ ~pa_fetched[i].used
            /\ \A o \in GroupObjs(i) :
                  /\ ~pa_heap[o].triggered
                  /\ o \notin EvaldObjs
                  /\ o \notin CalledObjs

\* the cycle goes on behind an unpriceable group: when it is over every
\* group has been fetched and the alerts of every priced group evaluated
CycleGoesOnBehindUnpriceable ==
    (pa_pc = "done" /\ \E i \in 1..Len(pa_fetched) : Unpriceable(i)) =>
        /\ Len(pa_fetched) = Len(pa_map)
        /\ \A j \in 1..Len(pa_map) :
              pa_fetched[j].used =>
                  \A o \in GroupObjs(j) :
                      <<o, Val(pa_fetched[j].price)>> \in pa_evald

\* the alerts of an unpriceable group are as pending after the cycle as
\* they were before it
StaysPending ==
    (pa_pc = "done" /\ pa_pc' = "sleep") =>
        \A i \in 1..Len(pa_fetched) :
            Unpriceable(i) =>
                \A o \in GroupObjs(i) : ~pa_heap'[o].triggered

TasksOf(name) == get_jobs(bt_heap, bt_jobs, StrategyTaskId(name))

C38_OneTaskPerStrategy ==
    bt_up =>
        \A name \in StrategyNames :
            Len(TasksOf(name)) = (IF DictHas(bt_strategies, name) THEN 1 ELSE 0)


\* ------------------------------------------------------------------------
\* Claims about the monitor loops and failing cycles
\* ------------------------------------------------------------------------
\* a PriceAlertManager or a MemeSniper
IsMonitor == lc_monitor \in {"alerts", "sniper"}

\* a loop thread ends only at "while self.running", the flag being false
LoopEndsOnlyWhenStopped ==
    \A t \in 1..Len(lc_threads) :
        (lc_threads[t] # "exit" /\ lc_threads'[t] = "exit") =>
            (lc_threads[t] = "test" /\ ~lc_running)

\* a cycle that ends with an exception is followed by the sleep
FailedCycleSleeps ==
    \A t \in 1..Len(lc_threads) :
        (IsMonitor /\ lc_threads[t] = "cycle" /\ lc_threads'[t] # "cycle"
            /\ t \in lc_raised') => lc_threads'[t] = "sleep"

\* thread t has ended a cycle with an exception and has not begun the next
AfterFailedCycle(t) ==
    /\ IsMonitor
    /\ t \in 1..Len(lc_threads)
    /\ t \in lc_raised
    /\ lc_threads[t] \in {"sleep", "test"}

\* thread t is in a cycle, or stop has set running to False
InCycleOrStopped(t) ==
    \/ ~lc_running
    \/ t \in 1..Len(lc_threads) /\ lc_threads[t] = "cycle"

\* C39: while running is true a failing cycle does not end the loop of a
\* PriceAlertManager or a MemeSniper: the exception is caught, the thread
\* sleeps and, every loop thread being scheduled, runs a further cycle
\* unless stop has been called.
C39_FailingCycleKeepsLoopAlive ==
    /\ [][LoopEndsOnlyWhenStopped /\ FailedCycleSleeps]_vars
    /\ \A t \in 1..MaxThreads : AfterFailedCycle(t) ~> InCycleOrStopped(t)

\* C39 witness: the monitor is running and a loop thread whose last cycle
\* ended with an exception is in a further cycle
C39_Witness ==
    /\ IsMonitor
    /\ lc_running
    /\ \E t \in 1..Len(lc_threads) : t \in lc_raised /\ lc_threads[t] = "cycle"

====
